---------------------------- MODULE Spec2Model ----------------------------
(***************************************************************************)
(* Optical music recognition pipeline of music_recognition:                *)
(*   StaffDetector.find_staff_positions   (preprocessing/staff_detector)   *)
(*   SymbolDetector.detect_symbols / non_max_suppression (models)          *)
(*   NotationConverter.symbols_to_score / _estimate_pitch (postprocessing) *)
(*   MusicRecognitionSystem.recognize     (system)                         *)
(*                                                                         *)
(* Number representation.  Confidences are percentages (0.6 is 60), note   *)
(* durations are hundredths of a quarter note (0.25 is 25), the IoU        *)
(* threshold is a fraction <<num, den>> and every comparison of a quotient *)
(* is cross-multiplied, staff half-line positions are compared doubled.    *)
(***************************************************************************)
EXTENDS Integers, Sequences, FiniteSets, TLC

VARIABLES
    pc,                 \* control point of the call in progress
    \* ---- MusicRecognitionSystem.recognize / SymbolDetector --------------
    bboxes,             \* candidate boxes returned by process_image
    outputs,            \* classifier output (label, confidence) per box
    detections,         \* the caller's list object handed to non_max_suppression
    nms_input,          \* contents of that list when the call was made
    iou_threshold,      \* <<num, den>>
    nms_detections,     \* value of the local name `detections` inside NMS
    aliased,            \* the local name still denotes the caller's list object
    kept,               \* list built and returned by non_max_suppression
    rounds,             \* iterations of the suppression loop so far
    \* ---- NotationConverter.symbols_to_score ----------------------------
    score_detections,   \* parameter `detections` of symbols_to_score
    staff_positions,    \* parameter `staff_positions`
    score,              \* local MusicScore
    current_measure,    \* pending measure
    idx,                \* position of the second loop in score_detections
    current_score,      \* NotationConverter.current_score
    \* ---- StaffDetector.find_staff_positions ----------------------------
    horizontal_projection, \* the row sums, when the image is given in full
    height,             \* number of image rows
    peak,               \* np.max(horizontal_projection)
    peak_seen,          \* some row read so far attains the peak
    row,                \* loop index i of the projection scan
    in_line,
    line_start,
    line_positions,
    staff_space_height,
    gi,                 \* loop index of the grouping loop
    current_group,
    staff_groups,
    validated_groups,
    \* ---- repeated calls on one NotationConverter ----------------------
    call_no,            \* number of the symbols_to_score call in progress
    first_detections,   \* arguments and result of the first call
    first_staff_positions,
    first_score,
    \* ---- worker threads sharing one MusicRecognitionSystem ------------
    w_pc,               \* control point of each worker
    w_paths,            \* image_paths given to the worker's batch_recognize
    w_i,                \* position of the worker's loop in image_paths
    w_local,            \* locals of the worker's recognize call in progress
    w_scores,           \* the worker's list `scores`
    w_exported,         \* what the worker's export_musicxml has put in its document
    \* ---- StaffDetector.remove_staff_lines / extract_symbols -----------
    input_image,        \* the array handed to remove_staff_lines, as rows of pixels
    image_dtype,        \* "uint8", or "float32" with pixels in thousandths
    image_input,        \* contents of that array when the call was made
    result,             \* the array remove_staff_lines builds and returns
    contours            \* bounding rectangles of the contours cv2 finds

nmsVars   == <<detections, nms_input, iou_threshold, nms_detections, aliased, kept, rounds>>
detVars   == <<bboxes, outputs>>
scoreVars == <<score_detections, staff_positions, score, current_measure, idx, current_score>>
staffVars == <<horizontal_projection, height, peak, peak_seen, row, in_line, line_start, line_positions,
               staff_space_height, gi, current_group, staff_groups, validated_groups>>
callVars  == <<call_no, first_detections, first_staff_positions, first_score>>
workVars  == <<w_pc, w_paths, w_i, w_local, w_scores, w_exported>>
imageVars == <<input_image, image_dtype, image_input, result, contours>>
vars      == <<pc, detVars, nmsVars, scoreVars, staffVars, callVars, workVars, imageVars>>

-----------------------------------------------------------------------------
(* Bounds of the model *)
MaxDets   == 3      \* longest list given to non_max_suppression on its own
MaxBoxes  == 3      \* candidate boxes of one image in recognize
MaxStream == 4      \* longest stream given to symbols_to_score on its own
MaxRows   == 17     \* image rows scanned by find_staff_positions
MaxCallStream == 2  \* longest stream of a repeated symbols_to_score call
NWorkers == 2       \* worker threads that share one system
MaxBatch == 3       \* longest list of paths of a batch_recognize call
MaxStaves == 2      \* staves of an image that holds staves and nothing else
MaxHeaderStream == 3 \* longest stream of clefs and time signatures among notes
MaxNoteTop == 24    \* lowest top edge of a note box placed around a staff
MaxImageRows == 8   \* rows of the image handed to remove_staff_lines
MaxContours == 3    \* contours cv2.findContours gives extract_symbols
MaxVocabularyStream == 2  \* longest stream over the whole symbol vocabulary

-----------------------------------------------------------------------------
(* Generic helpers *)
Max(a, b) == IF a >= b THEN a ELSE b
Min(a, b) == IF a <= b THEN a ELSE b
Abs(a)    == IF a >= 0 THEN a ELSE -a
Range(s)  == {s[k] : k \in 1..Len(s)}
SeqsUpTo(S, n) == UNION {[1..k -> S] : k \in 0..n}

RECURSIVE Flatten(_)
Flatten(ss) == IF ss = <<>> THEN <<>> ELSE Head(ss) \o Flatten(Tail(ss))

RECURSIVE SelectIdx(_, _, _)
\* the subsequence of s at the positions in the set I, in order
SelectIdx(s, I, k) ==
    IF k > Len(s) THEN <<>>
    ELSE (IF k \in I THEN <<s[k]>> ELSE <<>>) \o SelectIdx(s, I, k + 1)

-----------------------------------------------------------------------------
(* A detection: the dict built by detect_symbols *)
Position(bbox) == <<bbox[1] + (bbox[3] \div 2), bbox[2] + (bbox[4] \div 2)>>

Detection(symbol, confidence, bbox) ==
    [symbol |-> symbol, confidence |-> confidence, bbox |-> bbox,
     position |-> Position(bbox)]

-----------------------------------------------------------------------------
(* SymbolDetector.non_max_suppression *)

RECURSIVE InsertBeforeEqual(_, _)
\* d goes in front of the elements of its own confidence (not stable)
InsertBeforeEqual(s, d) ==
    IF s = <<>> THEN <<d>>
    ELSE IF Head(s).confidence > d.confidence
         THEN <<Head(s)>> \o InsertBeforeEqual(Tail(s), d)
         ELSE <<d>> \o s

RECURSIVE InsertByConfidence(_, _)
\* d goes behind every element whose confidence is not lower (stable)
InsertByConfidence(s, d) ==
    IF s = <<>> THEN <<d>>
    ELSE IF Head(s).confidence >= d.confidence
         THEN <<Head(s)>> \o InsertByConfidence(Tail(s), d)
         ELSE <<d>> \o s

\* the list left in the order it was given
Unsorted(s) == s

RECURSIVE SortByConfidence(_)
\* detections.sort(key=confidence, reverse=True): descending and stable
SortByConfidence(s) ==
    IF s = <<>> THEN <<>>
    ELSE InsertByConfidence(SortByConfidence(SubSeq(s, 1, Len(s) - 1)), s[Len(s)])

InterArea(b1, b2) ==
    LET xi1 == Max(b1[1], b2[1])
        yi1 == Max(b1[2], b2[2])
        xi2 == Min(b1[1] + b1[3], b2[1] + b2[3])
        yi2 == Min(b1[2] + b1[4], b2[2] + b2[4])
    IN  Max(0, xi2 - xi1) * Max(0, yi2 - yi1)

UnionArea(b1, b2) == b1[3] * b1[4] + b2[3] * b2[4] - InterArea(b1, b2)

\* iou < iou_threshold, with iou = inter/union if union > 0 else 0
IouNotAbove(b1, b2, thr) ==
    IF UnionArea(b1, b2) > 0
    THEN InterArea(b1, b2) * thr[2] <= thr[1] * UnionArea(b1, b2)
    ELSE 0 <= thr[1]

IouBelow(b1, b2, thr) ==
    IF UnionArea(b1, b2) > 0
    THEN InterArea(b1, b2) * thr[2] < thr[1] * UnionArea(b1, b2)
    ELSE 0 < thr[1]

\* iou > iou_threshold (used by the properties only)
IouAbove(b1, b2, thr) ==
    /\ UnionArea(b1, b2) > 0
    /\ InterArea(b1, b2) * thr[2] > thr[1] * UnionArea(b1, b2)

\* an inner loop that lets no detection through
FilteredNone(best, s, thr) == <<>>

RECURSIVE Filtered(_, _, _)
\* the list `filtered` built by the inner loop for the box of `best`
Filtered(best, s, thr) ==
    IF s = <<>> THEN <<>>
    ELSE (IF IouBelow(best.bbox, Head(s).bbox, thr) THEN <<Head(s)>> ELSE <<>>)
         \o Filtered(best, Tail(s), thr)

\* a pop that hands out the first element and leaves the list as it is
PopNothing(list) == list

\* line 137: detections.pop(0) removes the first element of the list
PopFirst(list) == Tail(list)

\* line 129-130: an empty argument returns a new empty list at once
NmsEmpty ==
    /\ pc = "nms_call"
    /\ detections = <<>>
    /\ kept' = <<>>
    /\ pc' = "nms_returned"
    /\ UNCHANGED <<detections, nms_input, iou_threshold, nms_detections, aliased, rounds>>
    /\ UNCHANGED <<callVars, workVars, detVars, imageVars, scoreVars, staffVars>>

\* line 132-134: in-place sort of the argument, kept = []
NmsSort ==
    /\ pc = "nms_call"
    /\ detections # <<>>
    /\ detections' = SortByConfidence(detections)
    /\ nms_detections' = SortByConfidence(detections)
    /\ aliased' = TRUE
    /\ kept' = <<>>
    /\ pc' = "nms_loop"
    /\ UNCHANGED <<nms_input, iou_threshold, rounds>>
    /\ UNCHANGED <<callVars, workVars, detVars, imageVars, scoreVars, staffVars>>

\* line 136-161: one iteration of the while loop
NmsRound ==
    /\ pc = "nms_loop"
    /\ nms_detections # <<>>
    /\ LET best == Head(nms_detections)
           rest == PopFirst(nms_detections)
       IN  /\ kept' = Append(kept, best)
           \* detections.pop(0) acts on the caller's list while the local
           \* name still denotes it
           /\ detections' = IF aliased THEN PopFirst(detections) ELSE detections
           /\ nms_detections' = Filtered(best, rest, iou_threshold)
    /\ aliased' = FALSE
    /\ rounds' = rounds + 1
    /\ UNCHANGED <<pc, nms_input, iou_threshold>>
    /\ UNCHANGED <<callVars, workVars, detVars, imageVars, scoreVars, staffVars>>

\* line 163
NmsReturn ==
    /\ pc = "nms_loop"
    /\ nms_detections = <<>>
    /\ pc' = "nms_returned"
    /\ UNCHANGED <<callVars, workVars, nmsVars, detVars, imageVars, scoreVars, staffVars>>

NmsNext == NmsEmpty \/ NmsSort \/ NmsRound \/ NmsReturn

RECURSIVE NmsLoop(_, _)
\* line 136-161: the list `keep` the while loop builds from a sorted list
NmsLoop(list, thr) ==
    IF list = <<>> THEN <<>>
    ELSE <<Head(list)>> \o NmsLoop(Filtered(Head(list), PopFirst(list), thr), thr)

\* non_max_suppression, line 118-163: the list a call returns
NonMaxSuppression(list, thr) ==
    IF list = <<>> THEN <<>> ELSE NmsLoop(SortByConfidence(list), thr)

-----------------------------------------------------------------------------
(* NotationConverter *)

\* MusicScore.__init__
EmptyScore ==
    [measures |-> <<>>, time_signature |-> <<4, 4>>, key_signature |-> 0,
     clef |-> "treble", tempo |-> 120]

\* NOTE_DURATIONS and REST_DURATIONS, in hundredths of a quarter note
NOTE_DURATIONS ==
    [s \in {"whole_note", "half_note", "quarter_note", "eighth_note", "sixteenth_note"} |->
        CASE s = "whole_note" -> 400
          [] s = "half_note" -> 200
          [] s = "quarter_note" -> 100
          [] s = "eighth_note" -> 50
          [] OTHER -> 25]

REST_DURATIONS ==
    [s \in {"whole_rest", "half_rest", "quarter_rest", "eighth_rest", "sixteenth_rest"} |->
        CASE s = "whole_rest" -> 400
          [] s = "half_rest" -> 200
          [] s = "quarter_rest" -> 100
          [] s = "eighth_rest" -> 50
          [] OTHER -> 25]

\* symbol.endswith('_clef') and symbol.replace('_clef', '') on the vocabulary
ClefSymbols == {"treble_clef", "bass_clef", "alto_clef"}
ClefName(symbol) ==
    CASE symbol = "treble_clef" -> "treble"
      [] symbol = "bass_clef" -> "bass"
      [] symbol = "alto_clef" -> "alto"

\* symbol.startswith('time_'), the split at '_' and the two int() calls
TimeSymbols == {"time_2_4", "time_3_4", "time_4_4", "time_6_8"}
TimeParts(symbol) ==
    CASE symbol = "time_2_4" -> <<2, 4>>
      [] symbol = "time_3_4" -> <<3, 4>>
      [] symbol = "time_4_4" -> <<4, 4>>
      [] symbol = "time_6_8" -> <<6, 8>>

BarlineSymbols == {"barline", "double_barline"}

RECURSIVE ScanFirstClefAndTime(_, _)
\* a first loop in which the first clef and the first time signature stay
ScanFirstClefAndTime(s, sc) ==
    IF s = <<>> THEN sc
    ELSE LET symbol == Head(s).symbol
             later == ScanFirstClefAndTime(Tail(s), sc)
         IN  IF symbol \in ClefSymbols
             THEN [later EXCEPT !.clef = ClefName(symbol)]
             ELSE IF symbol \in TimeSymbols
                  THEN [later EXCEPT !.time_signature = TimeParts(symbol)]
                  ELSE later

RECURSIVE ScanClefAndTime(_, _)
\* line 72-81: the first loop over the detections
ScanClefAndTime(s, sc) ==
    IF s = <<>> THEN sc
    ELSE LET symbol == Head(s).symbol
             next == IF symbol \in ClefSymbols
                     THEN [sc EXCEPT !.clef = ClefName(symbol)]
                     ELSE IF symbol \in TimeSymbols
                          THEN [sc EXCEPT !.time_signature = TimeParts(symbol)]
                          ELSE sc
         IN  ScanClefAndTime(Tail(s), next)

treble_pitches == <<"F5", "E5", "D5", "C5", "B4", "A4", "G4", "F4", "E4", "D4", "C4">>

\* a grid of the lines alone, doubled
LinesOnly2(staff) == [k \in 1..Len(staff) |-> 2 * staff[k]]

\* line 140-145: the lines of the staff and the spaces between them, doubled
LinePositions2(staff) ==
    [k \in 1..(2 * Len(staff) - 1) |->
        IF k % 2 = 1 THEN 2 * staff[(k + 1) \div 2]
        ELSE staff[k \div 2] + staff[k \div 2 + 1]]

\* the first of the lines (odd indices) whose distance is minimal
ClosestLineIdx(y_position, grid2) ==
    CHOOSE k \in {j \in 1..Len(grid2) : j % 2 = 1} :
        \A m \in {j \in 1..Len(grid2) : j % 2 = 1} :
            /\ Abs(2 * y_position - grid2[k]) <= Abs(2 * y_position - grid2[m])
            /\ m < k => Abs(2 * y_position - grid2[k]) < Abs(2 * y_position - grid2[m])

\* line 147-154: the first index whose distance to y_position is minimal
ClosestIdx(y_position, grid2) ==
    CHOOSE k \in 1..Len(grid2) :
        /\ \A m \in 1..Len(grid2) :
              Abs(2 * y_position - grid2[k]) <= Abs(2 * y_position - grid2[m])
        /\ \A m \in 1..(k - 1) :
              Abs(2 * y_position - grid2[k]) < Abs(2 * y_position - grid2[m])

\* line 136-159: the pitch read off one staff of at least 5 lines
StaffPitch(y_position, staff) ==
    LET closest_idx == ClosestIdx(y_position, LinePositions2(staff))
    IN  IF closest_idx <= Len(treble_pitches) THEN treble_pitches[closest_idx] ELSE "C4"

\* a fallback that names the top of the table instead of C4
EstimatePitchTopFallback(y_position, staffs) ==
    IF staffs = <<>> \/ staffs[1] = <<>> THEN treble_pitches[1]
    ELSE IF Len(staffs[1]) < 5 THEN treble_pitches[1]
    ELSE StaffPitch(y_position, staffs[1])

\* _estimate_pitch, line 118-159
EstimatePitch(y_position, staffs) ==
    IF staffs = <<>> \/ staffs[1] = <<>> THEN "C4"
    ELSE IF Len(staffs[1]) < 5 THEN "C4"
    ELSE StaffPitch(y_position, staffs[1])

\* a barline that appends the pending measure also when it is empty
CloseMeasureAlways(measures, pending) ==
    [measures |-> Append(measures, pending), pending |-> <<>>]

\* a barline that appends the pending measure and keeps filling it
CloseMeasureNoReset(measures, pending) ==
    IF pending # <<>>
    THEN [measures |-> Append(measures, pending), pending |-> pending]
    ELSE [measures |-> measures, pending |-> pending]

\* line 107-110: what a barline does to score.measures and current_measure
CloseMeasure(measures, pending) ==
    IF pending # <<>>
    THEN [measures |-> Append(measures, pending), pending |-> <<>>]
    ELSE [measures |-> measures, pending |-> pending]

\* line 91-96 and 100-104
NoteEntry(det, staffs) ==
    [type |-> "note",
     pitch |-> EstimatePitch(det.bbox[2] + (det.bbox[4] \div 2), staffs),
     duration |-> NOTE_DURATIONS[det.symbol],
     position |-> det.position]

\* a rest that is given the default pitch
RestEntryPitched(det) ==
    [type |-> "rest", pitch |-> "C4", duration |-> REST_DURATIONS[det.symbol],
     position |-> det.position]

RestEntry(det) ==
    [type |-> "rest", duration |-> REST_DURATIONS[det.symbol], position |-> det.position]

\* a call that goes on with the score of the call before
ReusedScore(previous) == previous

\* line 70: score = MusicScore(), whatever self.current_score holds
FreshScore(previous) == EmptyScore

\* line 70-83: score = MusicScore(), the first loop, current_measure = []
ScoreHeader ==
    /\ pc = "score_call"
    /\ score' = ScanClefAndTime(score_detections, FreshScore(current_score))
    /\ current_measure' = <<>>
    /\ idx' = 1
    /\ pc' = "score_loop"
    /\ UNCHANGED <<score_detections, staff_positions, current_score>>
    /\ UNCHANGED <<callVars, workVars, detVars, imageVars, nmsVars, staffVars>>

\* line 84-110: one iteration of the second loop
ScoreStep ==
    /\ pc = "score_loop"
    /\ idx <= Len(score_detections)
    /\ LET det == score_detections[idx]
           symbol == det.symbol
       IN  IF symbol \in DOMAIN NOTE_DURATIONS
           THEN /\ current_measure' = Append(current_measure, NoteEntry(det, staff_positions))
                /\ score' = score
           ELSE IF symbol \in DOMAIN REST_DURATIONS
           THEN /\ current_measure' = Append(current_measure, RestEntry(det))
                /\ score' = score
           ELSE IF symbol \in BarlineSymbols
           THEN LET closed == CloseMeasure(score.measures, current_measure)
                IN  /\ score' = [score EXCEPT !.measures = closed.measures]
                    /\ current_measure' = closed.pending
           ELSE UNCHANGED <<score, current_measure>>
    /\ idx' = idx + 1
    /\ UNCHANGED <<pc, score_detections, staff_positions, current_score>>
    /\ UNCHANGED <<callVars, workVars, detVars, imageVars, nmsVars, staffVars>>

\* an end of stream that appends the pending measure also when it is empty
FlushMeasureAlways(measures, pending) == Append(measures, pending)

\* line 112-113: the pending measure is appended at end of stream if non-empty
FlushMeasure(measures, pending) ==
    IF pending # <<>> THEN Append(measures, pending) ELSE measures

\* line 112-116: the trailing measure, self.current_score = score, return
ScoreFlush ==
    /\ pc = "score_loop"
    /\ idx > Len(score_detections)
    /\ LET final == [score EXCEPT !.measures = FlushMeasure(score.measures, current_measure)]
       IN  /\ score' = final
           /\ current_score' = final
    /\ pc' = "score_returned"
    /\ UNCHANGED <<score_detections, staff_positions, current_measure, idx>>
    /\ UNCHANGED <<callVars, workVars, detVars, imageVars, nmsVars, staffVars>>

ScoreNext == ScoreHeader \/ ScoreStep \/ ScoreFlush

RECURSIVE MeasureLoop(_, _, _, _)
\* line 84-113: the measures the second loop and the final flush build
MeasureLoop(s, staffs, measures, pending) ==
    IF s = <<>> THEN FlushMeasure(measures, pending)
    ELSE LET det == Head(s)
             symbol == det.symbol
         IN  IF symbol \in DOMAIN NOTE_DURATIONS
             THEN MeasureLoop(Tail(s), staffs, measures,
                              Append(pending, NoteEntry(det, staffs)))
             ELSE IF symbol \in DOMAIN REST_DURATIONS
             THEN MeasureLoop(Tail(s), staffs, measures, Append(pending, RestEntry(det)))
             ELSE IF symbol \in BarlineSymbols
             THEN LET closed == CloseMeasure(measures, pending)
                  IN  MeasureLoop(Tail(s), staffs, closed.measures, closed.pending)
             ELSE MeasureLoop(Tail(s), staffs, measures, pending)

\* symbols_to_score, line 70-113: the local `score` of a call that finds
\* `previous` in self.current_score
SymbolsToScore(s, staffs, previous) ==
    LET header == ScanClefAndTime(s, FreshScore(previous))
    IN  [header EXCEPT !.measures = MeasureLoop(s, staffs, header.measures, <<>>)]

-----------------------------------------------------------------------------
(* Values of the variables a call does not use *)
DetIdle == bboxes = <<>> /\ outputs = <<>>

NmsIdle ==
    /\ detections = <<>> /\ nms_input = <<>> /\ iou_threshold = <<3, 10>>
    /\ nms_detections = <<>> /\ aliased = FALSE /\ kept = <<>> /\ rounds = 0

ScoreIdle ==
    /\ score_detections = <<>> /\ staff_positions = <<>> /\ score = EmptyScore
    /\ current_measure = <<>> /\ idx = 0 /\ current_score = EmptyScore

CallIdle ==
    /\ call_no = 1 /\ first_detections = <<>> /\ first_staff_positions = <<>>
    /\ first_score = EmptyScore

ImageIdle ==
    /\ input_image = <<>> /\ image_dtype = "uint8" /\ image_input = <<>>
    /\ result = <<>> /\ contours = <<>>

WorkIdle ==
    /\ w_pc = <<>> /\ w_paths = <<>> /\ w_i = <<>> /\ w_local = <<>> /\ w_scores = <<>>
    /\ w_exported = <<>>

StaffIdle ==
    /\ horizontal_projection = <<>> /\ height = 0 /\ peak = 0 /\ peak_seen = TRUE /\ row = 0 /\ in_line = FALSE
    /\ line_start = 0 /\ line_positions = <<>> /\ staff_space_height = 10
    /\ gi = 0 /\ current_group = <<>> /\ staff_groups = <<>>
    /\ validated_groups = <<>>

-----------------------------------------------------------------------------
(* non_max_suppression called on its own with any list and threshold *)
NmsBoxes ==
    {<<0, 0, 6, 6>>, <<2, 0, 6, 6>>, <<4, 0, 6, 6>>, <<0, 20, 6, 6>>, <<1, 1, 0, 0>>}

NmsConfidences == {70, 80, 90}

NmsThresholds == {<<3, 10>>, <<1, 2>>}

NmsDetections == {Detection("quarter_note", c, b) : c \in NmsConfidences, b \in NmsBoxes}

\* two detections of confidence 0.8 and 0.95 whose boxes have IoU 36/60
OverlapLow  == Detection("quarter_note", 80, <<0, 0, 8, 6>>)
OverlapHigh == Detection("quarter_note", 95, <<2, 0, 8, 6>>)
OverlapLists == {<<OverlapLow, OverlapHigh>>, <<OverlapHigh, OverlapLow>>}

NmsInit ==
    /\ pc = "nms_call"
    /\ \/ /\ detections \in SeqsUpTo(NmsDetections, MaxDets)
          /\ iou_threshold \in NmsThresholds
       \/ /\ detections \in OverlapLists
          /\ iou_threshold = <<1, 2>>
    /\ nms_input = detections
    /\ nms_detections = <<>> /\ aliased = FALSE /\ kept = <<>> /\ rounds = 0
    /\ DetIdle /\ ScoreIdle /\ StaffIdle /\ CallIdle /\ ImageIdle /\ WorkIdle

SpecNms == NmsInit /\ [][NmsNext]_vars

-----------------------------------------------------------------------------
(* Properties of non_max_suppression *)

\* iou >= threshold, computed from the boxes
IouReaches(b1, b2, thr) ==
    IF UnionArea(b1, b2) > 0
    THEN InterArea(b1, b2) * thr[2] >= thr[1] * UnionArea(b1, b2)
    ELSE 0 >= thr[1]

\* C3: any two distinct detections of the list built by non_max_suppression
\* have bounding-box IoU strictly below the suppression threshold.
C3_KeptPairwiseBelow ==
    \A i \in 1..Len(kept) : \A j \in 1..Len(kept) :
        i # j => ~IouReaches(kept[i].bbox, kept[j].bbox, iou_threshold)

C3_Witness ==
    /\ pc = "nms_returned"
    /\ Len(kept) >= 2
    /\ Len(kept) < Len(nms_input)
    /\ \E i \in 1..Len(kept) : \E j \in 1..Len(kept) :
          i # j /\ InterArea(kept[i].bbox, kept[j].bbox) > 0

\* C4 as stated: of every pair of input detections whose IoU is above the
\* threshold, the higher-confidence one is in the output and the
\* lower-confidence one is not.
C4_ExactlyHigherSurvives ==
    pc = "nms_returned" =>
        \A i \in 1..Len(nms_input) : \A j \in 1..Len(nms_input) :
            (/\ IouAbove(nms_input[i].bbox, nms_input[j].bbox, iou_threshold)
             /\ nms_input[i].confidence > nms_input[j].confidence)
            => (nms_input[i] \in Range(kept) /\ nms_input[j] \notin Range(kept))

\* C4 amended: of every pair of input detections whose IoU is above the
\* threshold the two are never both in the output - when the
\* higher-confidence one is in the output the lower-confidence one is not -
\* and the higher-confidence one is absent only when a kept detection of at
\* least its confidence has IoU at or above the threshold with it.
C4_NeverBothAndHigherOnlyLosesToHigher ==
    pc = "nms_returned" =>
        \A i \in 1..Len(nms_input) : \A j \in 1..Len(nms_input) :
            (/\ IouAbove(nms_input[i].bbox, nms_input[j].bbox, iou_threshold)
             /\ nms_input[i].confidence > nms_input[j].confidence)
            => /\ nms_input[i] \in Range(kept) => nms_input[j] \notin Range(kept)
               /\ nms_input[i] \notin Range(kept) =>
                    \E k \in 1..Len(kept) :
                        /\ kept[k].confidence >= nms_input[i].confidence
                        /\ IouReaches(kept[k].bbox, nms_input[i].bbox, iou_threshold)

\* a chain: the middle detection is suppressed by a higher one, and the
\* lowest, which overlaps only the middle one, survives
C4_Witness ==
    /\ pc = "nms_returned"
    /\ \E i \in 1..Len(nms_input) : \E j \in 1..Len(nms_input) :
          /\ IouAbove(nms_input[i].bbox, nms_input[j].bbox, iou_threshold)
          /\ nms_input[i].confidence > nms_input[j].confidence
          /\ nms_input[i] \notin Range(kept)
          /\ nms_input[j] \in Range(kept)

\* number of positions of s that hold v
Count(v, s) == Cardinality({i \in 1..Len(s) : s[i] = v})

\* C17: on a non-empty input the first detection kept has the highest
\* confidence of the input; every input detection that is not kept has IoU
\* at or above the threshold with a kept detection of at least its own
\* confidence; two detections of IoU 0.6 (threshold 0.5) and confidences
\* 0.8 and 0.95 leave exactly the 0.95 one.
C17_HighestKeptDroppedOverlapKept ==
    (pc = "nms_returned" /\ nms_input # <<>>) =>
        /\ kept # <<>>
        /\ kept[1] \in Range(nms_input)
        /\ \A i \in 1..Len(nms_input) : nms_input[i].confidence <= kept[1].confidence
        /\ \A v \in Range(nms_input) :
              Count(v, kept) < Count(v, nms_input) =>
                 \E k \in Range(kept) :
                    /\ k.confidence >= v.confidence
                    /\ IouReaches(k.bbox, v.bbox, iou_threshold)
        /\ (/\ Len(nms_input) = 2
            /\ iou_threshold = <<1, 2>>
            /\ {nms_input[1].confidence, nms_input[2].confidence} = {80, 95}
            /\ 5 * InterArea(nms_input[1].bbox, nms_input[2].bbox)
                  = 3 * UnionArea(nms_input[1].bbox, nms_input[2].bbox))
           => \E i \in 1..2 : nms_input[i].confidence = 95 /\ kept = <<nms_input[i]>>

\* the 0.8 detection came first in the input and only the 0.95 one is kept
C17_Witness ==
    /\ pc = "nms_returned"
    /\ nms_input = <<OverlapLow, OverlapHigh>>
    /\ iou_threshold = <<1, 2>>
    /\ kept = <<OverlapHigh>>

\* C19: the list built by non_max_suppression holds detections of the
\* input only, with all their fields, each no more often than the input
\* holds it; every round of the loop keeps one detection and shortens the
\* list still to be looked at, so that rounds plus detections left never
\* exceed the number of input detections and the loop ends within that
\* many rounds.
C19_OnlyDropsAndTerminates ==
    /\ [](pc \in {"nms_loop", "nms_returned"} =>
            /\ \A v \in Range(kept) :
                  /\ v \in Range(nms_input)
                  /\ Count(v, kept) <= Count(v, nms_input)
            /\ Len(kept) = rounds
            /\ rounds + Len(nms_detections) <= Len(nms_input))
    /\ [][(pc = "nms_loop" /\ nms_detections # <<>>) =>
            /\ Len(nms_detections') < Len(nms_detections)
            /\ rounds' = rounds + 1
            /\ kept' = Append(kept, nms_detections[1])]_vars

\* a call on three detections has ended after two rounds: two are kept
\* and one is dropped
C19_Witness ==
    /\ pc = "nms_returned"
    /\ Len(nms_input) = 3
    /\ rounds = 2
    /\ Len(kept) = 2
    /\ nms_detections = <<>>

\* C5: after the call the caller's list holds the same detections in the
\* same order as before the call.
C5_ArgumentUntouched ==
    pc = "nms_returned" => detections = nms_input

\* input[m] is considered before input[i]: higher confidence, or the same
\* confidence and earlier in the input
ConsideredBefore(m, i) ==
    \/ nms_input[m].confidence > nms_input[i].confidence
    \/ /\ nms_input[m].confidence = nms_input[i].confidence
       /\ m < i

\* input[i] and input[j], i before j, have equal confidence and boxes whose
\* IoU reaches the threshold
TiedPair(i, j) ==
    /\ i < j
    /\ nms_input[i].confidence = nms_input[j].confidence
    /\ nms_input[i] # nms_input[j]
    /\ IouReaches(nms_input[i].bbox, nms_input[j].bbox, iou_threshold)

\* some kept detection of higher confidence reaches the threshold with d
SuppressedByHigher(d) ==
    \E k \in Range(kept) :
        /\ k.confidence > d.confidence
        /\ IouReaches(k.bbox, d.bbox, iou_threshold)

\* C26 as written: of two tied detections that no higher-confidence
\* detection suppresses, the one earlier in the input is kept, and the
\* output is a function of the input.
C26_TieEarlierKeptUnlessHigher ==
    pc = "nms_returned" =>
        /\ kept = NonMaxSuppression(nms_input, iou_threshold)
        /\ \A i, j \in 1..Len(nms_input) :
              (/\ TiedPair(i, j)
               /\ ~SuppressedByHigher(nms_input[i])
               /\ ~SuppressedByHigher(nms_input[j]))
              => /\ nms_input[i] \in Range(kept)
                 /\ nms_input[j] \notin Range(kept)

\* C26: of two tied detections the one earlier in the input is kept and the
\* later one dropped, unless a kept detection considered before the earlier
\* one (higher confidence, or equal confidence and earlier in the input)
\* reaches the threshold with it; the output is a function of the input.
C26_TieEarlierKept ==
    pc = "nms_returned" =>
        /\ kept = NonMaxSuppression(nms_input, iou_threshold)
        /\ \A i, j \in 1..Len(nms_input) :
              (/\ TiedPair(i, j)
               /\ ~\E m \in 1..Len(nms_input) :
                     /\ ConsideredBefore(m, i)
                     /\ nms_input[m] \in Range(kept)
                     /\ IouReaches(nms_input[m].bbox, nms_input[i].bbox, iou_threshold))
              => /\ nms_input[i] \in Range(kept)
                 /\ nms_input[j] \notin Range(kept)

\* a call on two tied detections has returned the one given first
C26_Witness ==
    /\ pc = "nms_returned"
    /\ Len(nms_input) = 2
    /\ TiedPair(1, 2)
    /\ kept = <<nms_input[1]>>

\* the list the rounds of a call arrive at is the one NonMaxSuppression gives
NonMaxSuppressionAgrees ==
    pc = "nms_returned" => kept = NonMaxSuppression(nms_input, iou_threshold)

-----------------------------------------------------------------------------
(* symbols_to_score called on its own with any stream and staff groups *)
Staff1 == <<10, 12, 14, 16, 18>>
Staff2 == <<30, 32, 34, 36, 38>>
ShortStaff == <<10, 12, 14, 16>>

StaffChoices == {<<>>, <<Staff1>>, <<Staff1, Staff2>>, <<ShortStaff>>}

\* note heads centred on the top line and the middle line of Staff1 and on
\* the top line of Staff2
NoteBoxes == {<<0, 7, 6, 6>>, <<0, 11, 6, 6>>, <<0, 27, 6, 6>>}

StreamDetections ==
    {Detection("quarter_note", 90, b) : b \in NoteBoxes}
    \cup {Detection(sym, 90, <<0, 11, 6, 6>>) :
            sym \in {"half_rest", "barline", "double_barline", "bass_clef",
                     "time_3_4", "sharp"}}

\* a staff whose lines are not evenly spaced
UnevenStaff == <<10, 12, 15, 17, 20>>

\* a clef, a quarter note centred on the middle line of the staff, a
\* barline, a quarter note at some height, a barline, in reading order
MiddleLineStream(staff, y) ==
    <<Detection("treble_clef", 90, <<0, staff[1], 6, 6>>),
      Detection("quarter_note", 90, <<10, staff[3] - 3, 6, 6>>),
      Detection("barline", 90, <<20, staff[1], 6, 6>>),
      Detection("quarter_note", 90, <<30, y, 6, 6>>),
      Detection("barline", 90, <<40, staff[1], 6, 6>>)>>

MiddleLineInputs ==
    {<<MiddleLineStream(staff, y), <<staff>>>> :
        staff \in {Staff1, UnevenStaff}, y \in {0, 7, 8, 9, 12, 27}}

\* clefs and time signatures among notes and barlines
HeaderDetections ==
    {Detection(sym, 90, <<0, 11, 6, 6>>) :
        sym \in {"treble_clef", "bass_clef", "alto_clef", "time_3_4", "time_6_8",
                 "quarter_note", "barline"}}

\* two quarter notes at any heights from above the staff to below it
TwoNoteStreams ==
    {<<Detection("quarter_note", 90, <<0, y1, 6, 6>>),
       Detection("quarter_note", 90, <<10, y2, 6, 6>>)>> :
        y1 \in 0..MaxNoteTop, y2 \in 0..MaxNoteTop}

\* MusicSymbolCNN.SYMBOL_CLASSES and the 'unknown' of idx_to_symbol
SYMBOL_CLASSES ==
    {"treble_clef", "bass_clef", "alto_clef",
     "whole_note", "half_note", "quarter_note", "eighth_note", "sixteenth_note",
     "whole_rest", "half_rest", "quarter_rest", "eighth_rest", "sixteenth_rest",
     "sharp", "flat", "natural",
     "time_2_4", "time_3_4", "time_4_4", "time_6_8",
     "barline", "double_barline",
     "dot", "beam", "stem",
     "background", "unknown"}

\* streams of any symbols of the vocabulary, one after the other from left
\* to right
VocabularyStreams ==
    {[i \in 1..Len(syms) |-> Detection(syms[i], 90, <<10 * i, 11, 6, 6>>)] :
        syms \in SeqsUpTo(SYMBOL_CLASSES, MaxVocabularyStream)}

ScoreInit ==
    /\ pc = "score_call"
    /\ \/ /\ score_detections \in SeqsUpTo(StreamDetections, MaxStream)
          /\ staff_positions \in StaffChoices
       \/ /\ score_detections \in SeqsUpTo(HeaderDetections, MaxHeaderStream)
          /\ staff_positions = <<Staff1>>
       \/ \E input \in MiddleLineInputs :
             score_detections = input[1] /\ staff_positions = input[2]
       \/ /\ score_detections \in TwoNoteStreams
          /\ staff_positions \in {<<Staff1>>, <<UnevenStaff>>}
       \/ /\ score_detections \in VocabularyStreams
          /\ staff_positions = <<Staff1>>
    /\ score = EmptyScore /\ current_measure = <<>> /\ idx = 0
    /\ current_score = EmptyScore
    /\ DetIdle /\ NmsIdle /\ StaffIdle /\ CallIdle /\ ImageIdle /\ WorkIdle

SpecScore == ScoreInit /\ [][ScoreNext]_vars

-----------------------------------------------------------------------------
(* Properties of symbols_to_score *)

IsBar(d)   == d.symbol \in BarlineSymbols
IsEntry(d) == d.symbol \in (DOMAIN NOTE_DURATIONS) \cup (DOMAIN REST_DURATIONS)
IsNote(d)  == d.symbol \in DOMAIN NOTE_DURATIONS

BarIdx(s)   == {k \in 1..Len(s) : IsBar(s[k])}
EntryIdx(s) == {k \in 1..Len(s) : IsEntry(s[k])}

\* a note or rest follows the last barline of the stream
TrailingNonEmpty(s) ==
    \E k \in EntryIdx(s) : \A m \in (k + 1)..Len(s) : ~IsBar(s[m])

\* the barlines that have a note or rest since the barline before them
ClosingBarIdx(s) ==
    {k \in BarIdx(s) :
        \E j \in EntryIdx(s) : j < k /\ \A m \in (j + 1)..(k - 1) : ~IsBar(s[m])}

AllEntries(sc) == Flatten(sc.measures)

\* distance of a vertical position to the closest line or space of a staff
StaffDistance2(y, staff) ==
    LET grid2 == LinePositions2(staff)
    IN  Abs(2 * y - grid2[ClosestIdx(y, grid2)])

NearestStaffs(y, staffs) ==
    {k \in 1..Len(staffs) :
        \A m \in 1..Len(staffs) :
            StaffDistance2(y, staffs[k]) <= StaffDistance2(y, staffs[m])}

\* C9: with more than one staff, the pitch of every note is the pitch read
\* off the staff nearest to the vertical centre of the note.
C9_PitchFromNearestStaff ==
    (pc = "score_returned" /\ Len(staff_positions) > 1) =>
        \A k \in 1..Len(AllEntries(score)) :
            LET e == AllEntries(score)[k]
            IN  e.type = "note" =>
                  \E n \in NearestStaffs(e.position[2], staff_positions) :
                      e.pitch = StaffPitch(e.position[2], staff_positions[n])

\* the entry a detection gives when there is no staff reference
FallbackEntry(det) ==
    IF IsNote(det)
    THEN [type |-> "note", pitch |-> "C4", duration |-> NOTE_DURATIONS[det.symbol],
          position |-> det.position]
    ELSE [type |-> "rest", duration |-> REST_DURATIONS[det.symbol],
          position |-> det.position]

RECURSIVE MeasureOf(_, _)
\* the measure that holds the p-th entry of the concatenated measures
MeasureOf(ms, p) ==
    IF p <= Len(Head(ms)) THEN 1 ELSE 1 + MeasureOf(Tail(ms), p - Len(Head(ms)))

\* C10: with empty staff_groups every note detection yields a note entry
\* with pitch C4 and its table duration (none is omitted), in the measure
\* where it occurs: the entries are those of the stream in stream order,
\* and an entry lies in the measure after as many measures as were closed
\* before it.
C10_NoStaffFallsBackToC4 ==
    (pc = "score_returned" /\ staff_positions = <<>>) =>
        LET s == score_detections
            entries == SelectIdx(s, EntryIdx(s), 1)
            flat == AllEntries(score)
        IN  /\ Len(flat) = Len(entries)
            /\ \A p \in 1..Len(entries) : flat[p] = FallbackEntry(entries[p])
            /\ \A k \in EntryIdx(s) :
                 MeasureOf(score.measures, Cardinality(EntryIdx(s) \cap 1..k))
                    = 1 + Cardinality(ClosingBarIdx(s) \cap 1..k)

C10_Witness ==
    /\ pc = "score_returned"
    /\ staff_positions = <<>>
    /\ Len(score.measures) = 2
    /\ \E k \in 1..Len(score_detections) : IsNote(score_detections[k])
    /\ \A m \in 1..2 : \E p \in 1..Len(score.measures[m]) :
          score.measures[m][p].type = "note" /\ score.measures[m][p].pitch = "C4"

\* C12 as stated: when no note or rest follows the last barline (or the
\* stream holds no note or rest at all), the empty pending measure is still
\* appended, so the returned score ends with an empty measure.
C12_EmptyTrailingMeasureFlushed ==
    (pc = "score_returned" /\ ~TrailingNonEmpty(score_detections)) =>
        /\ Len(score.measures) >= 1
        /\ score.measures[Len(score.measures)] = <<>>

\* C12 amended: at end of stream an empty pending measure is dropped, not
\* flushed: the end-of-stream step appends the pending measure when it is
\* non-empty and appends nothing when it is empty (the stream ended right
\* after a barline or held no note or rest), and no measure of the score is
\* empty.
C12_EmptyTrailingMeasureDropped ==
    [][(pc = "score_loop" /\ idx > Len(score_detections)) =>
         /\ score'.measures = IF current_measure # <<>>
                              THEN Append(score.measures, current_measure)
                              ELSE score.measures
         /\ \A m \in 1..Len(score'.measures) : score'.measures[m] # <<>>]_vars

\* a stream that ended right after a barline, returned with the one
\* measure that barline closed
C12_Witness ==
    /\ pc = "score_returned"
    /\ Len(score_detections) >= 2
    /\ IsBar(score_detections[Len(score_detections)])
    /\ current_measure = <<>>
    /\ Len(score.measures) = 1

YCenter(d) == d.bbox[2] + (d.bbox[4] \div 2)

\* the stream and staff groups of the claim: clef, quarter note centred on
\* the middle line, barline, quarter note, barline over one 5-line staff
MiddleLineCase(s, staffs) ==
    /\ Len(staffs) = 1 /\ Len(staffs[1]) = 5
    /\ Len(s) = 5
    /\ s[1].symbol = "treble_clef"
    /\ s[2].symbol = "quarter_note" /\ YCenter(s[2]) = staffs[1][3]
    /\ s[3].symbol = "barline"
    /\ s[4].symbol = "quarter_note"
    /\ s[5].symbol = "barline"

\* the table entries of the lines and spaces of the staff nearest to y
NearestPitches(y, staff) ==
    LET grid2 == [k \in 1..9 |->
                    IF k % 2 = 1 THEN 2 * staff[(k + 1) \div 2]
                    ELSE staff[k \div 2] + staff[k \div 2 + 1]]
    IN  {treble_pitches[k] : k \in
            {k \in 1..9 : \A m \in 1..9 :
                Abs(2 * y - grid2[k]) <= Abs(2 * y - grid2[m])}}

\* C15: for clef, quarter note on the middle line, barline, quarter note,
\* barline over one 5-line staff the score has clef treble and two measures
\* of one quarter note (duration 1.0) each; the first note has the pitch of
\* the middle line, B4, the second the pitch of the line or space nearest
\* to its own centre.
C15_MiddleLineScenario ==
    (pc = "score_returned" /\ MiddleLineCase(score_detections, staff_positions)) =>
        /\ score.clef = "treble"
        /\ Len(score.measures) = 2
        /\ \A m \in 1..2 :
              /\ Len(score.measures[m]) = 1
              /\ score.measures[m][1].type = "note"
              /\ score.measures[m][1].duration = 100
        /\ score.measures[1][1].pitch = "B4"
        /\ score.measures[1][1].position = score_detections[2].position
        /\ score.measures[2][1].pitch \in
              NearestPitches(YCenter(score_detections[4]), staff_positions[1])
        /\ score.measures[2][1].position = score_detections[4].position

\* the scenario has returned with a second note on another line than the
\* first, over the unevenly spaced staff
C15_Witness ==
    /\ pc = "score_returned"
    /\ MiddleLineCase(score_detections, staff_positions)
    /\ staff_positions = <<UnevenStaff>>
    /\ Len(score.measures) = 2
    /\ score.measures[2][1].pitch = "F5"

\* the clef named by the last clef detection of s, treble if there is none
LastClef(s) ==
    LET I == {i \in 1..Len(s) : s[i].symbol \in ClefSymbols}
    IN  IF I = {} THEN "treble"
        ELSE ClefName(s[CHOOSE i \in I : \A j \in I : j <= i].symbol)

\* the time signature of the last time-signature detection, 4/4 if none
LastTime(s) ==
    LET I == {i \in 1..Len(s) : s[i].symbol \in TimeSymbols}
    IN  IF I = {} THEN <<4, 4>>
        ELSE TimeParts(s[CHOOSE i \in I : \A j \in I : j <= i].symbol)

\* C18: a new score has time signature 4/4, clef treble and tempo 120;
\* the returned score has the clef of the last clef detection and the time
\* signature of the last time-signature detection of the stream (the
\* defaults if there is none) and tempo 120; the step of the measure loop
\* on a clef or time-signature detection leaves the measures and the
\* pending measure as they are.
C18_HeaderDefaultsAndLastWins ==
    /\ [](/\ EmptyScore.time_signature = <<4, 4>>
          /\ EmptyScore.clef = "treble"
          /\ EmptyScore.tempo = 120
          /\ pc = "score_returned" =>
                /\ score.clef = LastClef(score_detections)
                /\ score.time_signature = LastTime(score_detections)
                /\ score.tempo = 120)
    /\ [][(/\ pc = "score_loop"
           /\ idx <= Len(score_detections)
           /\ score_detections[idx].symbol \in ClefSymbols \cup TimeSymbols)
          => (/\ score'.measures = score.measures
              /\ current_measure' = current_measure)]_vars

\* two clefs and a time signature after a note: the later clef is in the
\* score and the note is the only entry
C18_Witness ==
    /\ pc = "score_returned"
    /\ Len(score_detections) = 3
    /\ score_detections[1].symbol = "bass_clef"
    /\ score_detections[2].symbol = "quarter_note"
    /\ score_detections[3].symbol = "alto_clef"
    /\ score.clef = "alto"
    /\ score.measures = <<<<NoteEntry(score_detections[2], staff_positions)>>>>

\* the pitches of the 9 lines and spaces of a staff, from the top line down
NinePitches == <<"F5", "E5", "D5", "C5", "B4", "A4", "G4", "F4", "E4">>

\* the lines and spaces of the staff that no other is nearer to y, as
\* indices from the top line
NearestOfNine(y, staff) ==
    LET grid2 == [k \in 1..9 |->
                    IF k % 2 = 1 THEN 2 * staff[(k + 1) \div 2]
                    ELSE staff[k \div 2] + staff[k \div 2 + 1]]
    IN  {k \in 1..9 : \A m \in 1..9 :
            Abs(2 * y - grid2[k]) <= Abs(2 * y - grid2[m])}

NoteEntries(sc) == {e \in Range(AllEntries(sc)) : e.type = "note"}

\* C23: over one 5-line staff every note, also one above the top line or
\* below the bottom line, gets the pitch of the closest of the staff's 9
\* lines and spaces, F5 E5 D5 C5 B4 A4 G4 F4 E4 from the top line down,
\* and of two notes the one higher on the page never gets the lower pitch.
C23_ClosestOfNinePositions ==
    (/\ pc = "score_returned"
     /\ Len(staff_positions) = 1
     /\ Len(staff_positions[1]) = 5) =>
        /\ \A e \in NoteEntries(score) :
              \E k \in NearestOfNine(e.position[2], staff_positions[1]) :
                 e.pitch = NinePitches[k]
        /\ \A e1 \in NoteEntries(score) : \A e2 \in NoteEntries(score) :
              e1.position[2] < e2.position[2] =>
                 \E k1 \in 1..9 : \E k2 \in 1..9 :
                    /\ e1.pitch = NinePitches[k1]
                    /\ e2.pitch = NinePitches[k2]
                    /\ k1 <= k2

\* a note above the top line and a note below the bottom line of the
\* unevenly spaced staff got the pitches of those lines
C23_Witness ==
    /\ pc = "score_returned"
    /\ staff_positions = <<UnevenStaff>>
    /\ Len(score_detections) = 2
    /\ YCenter(score_detections[1]) > UnevenStaff[5]
    /\ YCenter(score_detections[2]) < UnevenStaff[1]
    /\ score.measures = <<<<NoteEntry(score_detections[1], staff_positions),
                            NoteEntry(score_detections[2], staff_positions)>>>>
    /\ score.measures[1][1].pitch = "E4"
    /\ score.measures[1][2].pitch = "F5"

NoteSymbols == {"whole_note", "half_note", "quarter_note", "eighth_note", "sixteenth_note"}
RestSymbols == {"whole_rest", "half_rest", "quarter_rest", "eighth_rest", "sixteenth_rest"}

\* whole 4.0, half 2.0, quarter 1.0, eighth 0.5, sixteenth 0.25, in hundredths
TableDuration(symbol) ==
    CASE symbol \in {"whole_note", "whole_rest"} -> 400
      [] symbol \in {"half_note", "half_rest"} -> 200
      [] symbol \in {"quarter_note", "quarter_rest"} -> 100
      [] symbol \in {"eighth_note", "eighth_rest"} -> 50
      [] symbol \in {"sixteenth_note", "sixteenth_rest"} -> 25

\* the note and rest detections of the stream, in stream order
EntryDetections ==
    SelectIdx(score_detections,
              {i \in 1..Len(score_detections) :
                  score_detections[i].symbol \in NoteSymbols \cup RestSymbols}, 1)

\* the positions of the stream behind its last barline
AfterLastBarline ==
    {i \in 1..Len(score_detections) :
        \A k \in i..Len(score_detections) :
            score_detections[k].symbol \notin {"barline", "double_barline"}}

\* C27: the measures of the returned score, one after the other, are the
\* note and rest detections of the stream in stream order, nothing lost or
\* duplicated: a note entry has its table duration, a pitch and the position
\* of its detection, a rest entry its table duration, its position and no
\* pitch; the notes and rests behind the last barline are the final measure;
\* no other symbol gives an entry.
C27_EntriesAreNotesAndRestsInOrder ==
    pc = "score_returned" =>
        LET entries == AllEntries(score)
            sources == EntryDetections
            trailing == SelectIdx(score_detections,
                                  {i \in AfterLastBarline :
                                      score_detections[i].symbol \in NoteSymbols \cup RestSymbols}, 1)
        IN  /\ Len(entries) = Len(sources)
            /\ \A k \in 1..Len(entries) :
                  /\ entries[k].duration = TableDuration(sources[k].symbol)
                  /\ entries[k].position = sources[k].position
                  /\ sources[k].symbol \in NoteSymbols =>
                        /\ entries[k].type = "note"
                        /\ DOMAIN entries[k] = {"type", "pitch", "duration", "position"}
                        /\ entries[k].pitch \in Range(treble_pitches)
                  /\ sources[k].symbol \in RestSymbols =>
                        /\ entries[k].type = "rest"
                        /\ DOMAIN entries[k] = {"type", "duration", "position"}
            /\ trailing # <<>> =>
                  /\ score.measures # <<>>
                  /\ Len(score.measures[Len(score.measures)]) = Len(trailing)
                  /\ \A k \in 1..Len(trailing) :
                        score.measures[Len(score.measures)][k].position = trailing[k].position

\* a sixteenth note followed by an eighth rest gave one measure of
\* two entries
C27_Witness ==
    /\ pc = "score_returned"
    /\ Len(score_detections) = 2
    /\ score_detections[1].symbol = "sixteenth_note"
    /\ score_detections[2].symbol = "eighth_rest"
    /\ Len(score.measures) = 1
    /\ Len(score.measures[1]) = 2
    /\ score.measures[1][1].duration = 25
    /\ score.measures[1][2] = [type |-> "rest", duration |-> 50, position |-> <<23, 14>>]

\* the score the steps of a call arrive at is the one SymbolsToScore gives
SymbolsToScoreAgrees ==
    pc = "score_returned" =>
        /\ score = SymbolsToScore(score_detections, staff_positions, EmptyScore)
        /\ current_score = score

-----------------------------------------------------------------------------
(* SymbolDetector.detect_symbols and MusicRecognitionSystem.recognize *)

\* MusicRecognitionSystem.__init__: confidence_threshold = 0.6
confidence_threshold == 60

RECURSIVE InsertByX(_, _)
\* d goes behind every element whose position[0] is not greater (stable)
InsertByX(s, d) ==
    IF s = <<>> THEN <<d>>
    ELSE IF Head(s).position[1] <= d.position[1]
         THEN <<Head(s)>> \o InsertByX(Tail(s), d)
         ELSE <<d>> \o s

RECURSIVE SortByX(_)
\* detections.sort(key=lambda d: d['position'][0])
SortByX(s) ==
    IF s = <<>> THEN <<>>
    ELSE InsertByX(SortByX(SubSeq(s, 1, Len(s) - 1)), s[Len(s)])

\* a box is taken whatever the confidence of its label
AcceptedAnyConfidence(out) == out[1] # "background"

\* line 84-87: the confidence floor and the reserved label
Accepted(out) == out[2] >= confidence_threshold /\ out[1] # "background"

RECURSIVE Classified(_, _)
\* line 63-93: the detections appended by the loop over the boxes; out[k]
\* is the (label, confidence) the classifier gives for the k-th box
Classified(boxes, out) ==
    IF boxes = <<>> THEN <<>>
    ELSE LET bbox == Head(boxes)
             empty == bbox[3] <= 0 \/ bbox[4] <= 0
         IN  (IF ~empty /\ Accepted(Head(out))
              THEN <<Detection(Head(out)[1], Head(out)[2], bbox)>>
              ELSE <<>>)
             \o Classified(Tail(boxes), Tail(out))

\* detect_symbols, line 52-97
DetectSymbols(boxes, out) == SortByX(Classified(boxes, out))

\* recognize line 86
RecognizeDetect ==
    /\ pc = "recognize"
    /\ detections' = DetectSymbols(bboxes, outputs)
    /\ pc' = "detected"
    /\ UNCHANGED <<nms_input, iou_threshold, nms_detections, aliased, kept, rounds>>
    /\ UNCHANGED <<callVars, workVars, detVars, imageVars, scoreVars, staffVars>>

\* recognize line 88: non_max_suppression(detections, iou_threshold=0.3)
RecognizeCallNms ==
    /\ pc = "detected"
    /\ nms_input' = detections
    /\ iou_threshold' = <<3, 10>>
    /\ pc' = "nms_call"
    /\ UNCHANGED <<detections, nms_detections, aliased, kept, rounds>>
    /\ UNCHANGED <<callVars, workVars, detVars, imageVars, scoreVars, staffVars>>

\* recognize line 88-90: the list returned is handed to symbols_to_score
RecognizeCallConverter ==
    /\ pc = "nms_returned"
    /\ score_detections' = kept
    /\ pc' = "score_call"
    /\ UNCHANGED <<staff_positions, score, current_measure, idx, current_score>>
    /\ UNCHANGED <<callVars, workVars, detVars, imageVars, nmsVars, staffVars>>

\* recognize line 92
RecognizeReturn ==
    /\ pc = "score_returned"
    /\ pc' = "done"
    /\ UNCHANGED <<callVars, workVars, detVars, imageVars, nmsVars, scoreVars, staffVars>>

\* candidate boxes as extract_symbols leaves them: more than 5 px in both
\* dimensions, sorted by top edge and then left edge.  The first lies to
\* the right of the others, the second and third overlap (IoU 1/3).
BoxAt(k) ==
    CASE k = 1 -> <<20, 0, 6, 6>>
      [] k = 2 -> <<0, 10, 6, 6>>
      [] k = 3 -> <<3, 10, 6, 6>>
      [] OTHER -> <<40 + 10 * (k - 4), 10, 6, 6>>

ClassifierLabels == {"bass_clef", "quarter_note", "barline", "time_3_4", "background"}
ClassifierConfidences == {50, 60, 90}

Init ==
    /\ pc = "recognize"
    /\ \E present \in SUBSET (1..MaxBoxes) :
          bboxes = SelectIdx([k \in 1..MaxBoxes |-> BoxAt(k)], present, 1)
    /\ outputs \in [1..Len(bboxes) -> ClassifierLabels \X ClassifierConfidences]
    /\ staff_positions \in {<<>>, <<Staff1>>}
    /\ score_detections = <<>> /\ score = EmptyScore /\ current_measure = <<>>
    /\ idx = 0 /\ current_score = EmptyScore
    /\ NmsIdle /\ StaffIdle /\ CallIdle /\ ImageIdle /\ WorkIdle

Next ==
    \/ RecognizeDetect
    \/ RecognizeCallNms
    \/ NmsEmpty
    \/ NmsSort
    \/ NmsRound
    \/ NmsReturn
    \/ RecognizeCallConverter
    \/ ScoreHeader
    \/ ScoreStep
    \/ ScoreFlush
    \/ RecognizeReturn

Spec == Init /\ [][Next]_vars

-----------------------------------------------------------------------------
(* Properties of recognize *)

\* top-to-bottom, then left-to-right, by the top-left corner of the boxes
InReadingOrder(s) ==
    \A i \in 1..Len(s) : \A j \in (i + 1)..Len(s) :
        \/ s[i].bbox[2] < s[j].bbox[2]
        \/ (s[i].bbox[2] = s[j].bbox[2] /\ s[i].bbox[1] <= s[j].bbox[1])

\* C2: the detection list handed to symbols_to_score by recognize is in
\* reading order, top-to-bottom then left-to-right.
C2_StreamInReadingOrder ==
    pc = "score_call" => InReadingOrder(score_detections)

\* a raw classifier output that passes the confidence floor
Qualifies(k) == outputs[k][2] >= confidence_threshold /\ outputs[k][1] # "background"

FromQualifying(d) ==
    \E k \in 1..Len(bboxes) :
        /\ Qualifies(k)
        /\ d.bbox = bboxes[k] /\ d.symbol = outputs[k][1] /\ d.confidence = outputs[k][2]

\* C6: every detection that leaves detect_symbols, and so every note or
\* rest entry of the score and every clef or time signature taken into it,
\* derives from a classifier output whose confidence is at or above the
\* configured threshold and whose label is not "background".
C6_ConfidenceFloor ==
    /\ pc # "recognize" => \A k \in 1..Len(detections) : FromQualifying(detections[k])
    /\ \A k \in 1..Len(kept) : FromQualifying(kept[k])
    /\ \A k \in 1..Len(score_detections) : FromQualifying(score_detections[k])
    /\ \A k \in 1..Len(AllEntries(score) \o current_measure) :
          LET e == (AllEntries(score) \o current_measure)[k]
          IN  \E b \in 1..Len(bboxes) :
                /\ Qualifies(b)
                /\ e.position = Position(bboxes[b])
                /\ outputs[b][1] \in (DOMAIN NOTE_DURATIONS) \cup (DOMAIN REST_DURATIONS)
    /\ score.clef # EmptyScore.clef =>
          \E b \in 1..Len(bboxes) :
              Qualifies(b) /\ outputs[b][1] \in ClefSymbols
                           /\ ClefName(outputs[b][1]) = score.clef
    /\ score.time_signature # EmptyScore.time_signature =>
          \E b \in 1..Len(bboxes) :
              Qualifies(b) /\ outputs[b][1] \in TimeSymbols
                           /\ TimeParts(outputs[b][1]) = score.time_signature

\* a score with a note, from an image that also had a background box of
\* high confidence and a note box below the floor
C6_Witness ==
    /\ pc = "done"
    /\ Len(AllEntries(score)) = 1
    /\ \E b \in 1..Len(bboxes) : outputs[b] = <<"background", 90>>
    /\ \E b \in 1..Len(bboxes) : outputs[b] = <<"quarter_note", 50>>

-----------------------------------------------------------------------------
(* StaffDetector.find_staff_positions *)

\* line 72, 79, 82: val > np.max(horizontal_projection) * 0.3
AboveThreshold(val, max) == 10 * val > 3 * max

\* line 84: line_center = (line_start + i) // 2
LineCenter(start, i) == (start + i) \div 2

\* a line joins whenever it is near enough, however long the group is
JoinsBySpacing(group, pos, space_height) ==
    2 * (pos - group[Len(group)]) < 5 * space_height

\* line 93, 100-103: spacing < staff_space_height * 2.5 and room in the group
Joins(group, pos, space_height) ==
    2 * (pos - group[Len(group)]) < 5 * space_height /\ Len(group) < 5

\* a 5th line half the height of the 4 lines below the last one
InterpolatedHalf(group) == group[Len(group)] + ((group[Len(group)] - group[1]) \div 2)

\* line 112-114 and 125-126: int(group[-1] + (group[-1] - group[0]) / 4)
Interpolated(group) == group[Len(group)] + ((group[Len(group)] - group[1]) \div 4)

\* line 108-115 and 121-127: a finished group is saved with 5 lines, or
\* with 4 lines and an interpolated 5th
SaveGroup(groups, group) ==
    IF Len(group) = 5 THEN Append(groups, group)
    ELSE IF Len(group) = 4 THEN Append(groups, Append(group, Interpolated(group)))
    ELSE groups

\* a validation that accepts every group of 5
AnySpacing(group) == Len(group) = 5

\* line 132-138: all four spacings within 50% of their average
ConsistentSpacing(group) ==
    /\ Len(group) = 5
    /\ LET total == group[5] - group[1]
       IN  \A i \in 1..4 : 2 * Abs(4 * (group[i + 1] - group[i]) - total) < total

RECURSIVE Validated(_)
\* line 130-139
Validated(groups) ==
    IF groups = <<>> THEN <<>>
    ELSE (IF ConsistentSpacing(Head(groups)) THEN <<Head(groups)>> ELSE <<>>)
         \o Validated(Tail(groups))

\* values a row of the projection takes: nothing, at and just above 30% of
\* the peak, and the peak
RowValues == {0, 3, 4, 10}

\* line 78-85: one iteration of the scan; val is horizontal_projection[row]
ScanRow ==
    /\ pc = "staff_scan"
    /\ row < height
    /\ \E val \in RowValues :
          /\ val <= peak
          \* the peak is the maximum of the projection: some row attains it
          /\ (row = height - 1 /\ ~peak_seen) => val = peak
          /\ peak_seen' = (peak_seen \/ val = peak)
          /\ IF AboveThreshold(val, peak) /\ ~in_line
             THEN /\ in_line' = TRUE
                  /\ line_start' = row
                  /\ UNCHANGED line_positions
             ELSE IF ~AboveThreshold(val, peak) /\ in_line
             THEN /\ in_line' = FALSE
                  /\ line_positions' = Append(line_positions, LineCenter(line_start, row))
                  /\ UNCHANGED line_start
             ELSE UNCHANGED <<in_line, line_start, line_positions>>
    /\ row' = row + 1
    /\ UNCHANGED <<pc, horizontal_projection, height, peak, staff_space_height, gi, current_group,
                   staff_groups, validated_groups>>
    /\ UNCHANGED <<callVars, workVars, detVars, imageVars, nmsVars, scoreVars>>

\* line 87-93: the scan is over, staff_groups = [], current_group = []
ScanDone ==
    /\ pc = "staff_scan"
    /\ row = height
    /\ staff_groups' = <<>>
    /\ current_group' = <<>>
    /\ gi' = 1
    /\ pc' = "staff_group"
    /\ UNCHANGED <<horizontal_projection, height, peak, peak_seen, row, in_line, line_start, line_positions,
                   staff_space_height, validated_groups>>
    /\ UNCHANGED <<callVars, workVars, detVars, imageVars, nmsVars, scoreVars>>

\* line 95-118: one iteration of the grouping loop
GroupStep ==
    /\ pc = "staff_group"
    /\ gi <= Len(line_positions)
    /\ LET pos == line_positions[gi]
       IN  IF current_group = <<>>
           THEN /\ current_group' = <<pos>>
                /\ UNCHANGED staff_groups
           ELSE IF Joins(current_group, pos, staff_space_height)
           THEN /\ current_group' = Append(current_group, pos)
                /\ UNCHANGED staff_groups
           ELSE /\ staff_groups' = SaveGroup(staff_groups, current_group)
                /\ current_group' = <<pos>>
    /\ gi' = gi + 1
    /\ UNCHANGED <<pc, horizontal_projection, height, peak, peak_seen, row, in_line, line_start,
                   line_positions, staff_space_height, validated_groups>>
    /\ UNCHANGED <<callVars, workVars, detVars, imageVars, nmsVars, scoreVars>>

\* line 120-127: the last group
GroupLast ==
    /\ pc = "staff_group"
    /\ gi > Len(line_positions)
    /\ staff_groups' = SaveGroup(staff_groups, current_group)
    /\ pc' = "staff_validate"
    /\ UNCHANGED <<horizontal_projection, height, peak, peak_seen, row, in_line, line_start, line_positions,
                   staff_space_height, gi, current_group, validated_groups>>
    /\ UNCHANGED <<callVars, workVars, detVars, imageVars, nmsVars, scoreVars>>

\* line 129-141
Validate ==
    /\ pc = "staff_validate"
    /\ validated_groups' = Validated(staff_groups)
    /\ pc' = "staff_returned"
    /\ UNCHANGED <<horizontal_projection, height, peak, peak_seen, row, in_line, line_start, line_positions,
                   staff_space_height, gi, current_group, staff_groups>>
    /\ UNCHANGED <<callVars, workVars, detVars, imageVars, nmsVars, scoreVars>>

StaffInit ==
    /\ pc = "staff_scan"
    \* the rows are drawn as the scan reads them
    /\ horizontal_projection = <<>>
    /\ height = MaxRows
    /\ peak \in {0, 10}
    /\ peak_seen = (peak = 0)
    /\ staff_space_height \in {1, 2}
    /\ row = 0 /\ in_line = FALSE /\ line_start = 0 /\ line_positions = <<>>
    /\ gi = 0 /\ current_group = <<>> /\ staff_groups = <<>> /\ validated_groups = <<>>
    /\ DetIdle /\ NmsIdle /\ ScoreIdle /\ CallIdle /\ ImageIdle /\ WorkIdle

StaffNext == ScanRow \/ ScanDone \/ GroupStep \/ GroupLast \/ Validate

SpecStaff == StaffInit /\ [][StaffNext]_vars

-----------------------------------------------------------------------------
(* Properties of find_staff_positions *)

\* C7: every staff group returned by find_staff_positions, also one
\* repaired from 4 detected lines, has exactly 5 positions, strictly
\* increasing, and each of its four spacings deviates from the average
\* spacing of the group by at most 50% of that average.
C7_StaffValidity ==
    \A g \in 1..Len(validated_groups) :
        LET group == validated_groups[g]
        IN  /\ Len(group) = 5
            /\ \A i \in 1..4 : group[i] < group[i + 1]
            /\ \A i \in 1..4 :
                 Abs(8 * (group[i + 1] - group[i]) - 2 * (group[5] - group[1]))
                    <= group[5] - group[1]

\* a returned group whose 5th line was interpolated
C7_Witness ==
    /\ pc = "staff_returned"
    /\ \E g \in 1..Len(validated_groups) :
          /\ validated_groups[g][5] \notin Range(line_positions)
          /\ \A i \in 1..4 : validated_groups[g][i] \in Range(line_positions)

\* the first four members of the group are four detected lines in a row
FromFourLines(group) ==
    \E k \in 0..(Len(line_positions) - 4) :
        \A i \in 1..4 : group[i] = line_positions[k + i]

\* C20: the lines are taken top to bottom; a line joins the current group
\* exactly when it is less than 2.5 x staff_space_height below the group's
\* last member and the group has fewer than 5 members, otherwise the group
\* is closed and the line starts a new one; a closed group of 5 is handed
\* on as it is, a closed group of fewer than 4 is handed on nowhere, and
\* every group handed on or returned starts with four detected lines.
C20_GreedyGrouping ==
    /\ [](\A g \in 1..Len(staff_groups) : FromFourLines(staff_groups[g]))
    /\ [](\A g \in 1..Len(validated_groups) : FromFourLines(validated_groups[g]))
    /\ [][pc = "staff_group" =>
            LET closes ==
                    /\ (Len(current_group) = 5 =>
                           staff_groups' = Append(staff_groups, current_group))
                    /\ (Len(current_group) < 4 => staff_groups' = staff_groups)
                    /\ Len(staff_groups') <= Len(staff_groups) + 1
            IN  IF gi <= Len(line_positions)
                THEN LET pos == line_positions[gi]
                         near == 2 * (pos - current_group[Len(current_group)])
                                    < 5 * staff_space_height
                     IN  /\ gi' = gi + 1
                         /\ IF current_group = <<>>
                            THEN current_group' = <<pos>> /\ staff_groups' = staff_groups
                            ELSE IF near /\ Len(current_group) < 5
                            THEN /\ current_group' = Append(current_group, pos)
                                 /\ staff_groups' = staff_groups
                            ELSE current_group' = <<pos>> /\ closes
                ELSE closes /\ pc' = "staff_validate"]_vars

\* a sixth line near a full group has closed it and started a new group
C20_Witness ==
    /\ pc = "staff_group"
    /\ Len(staff_groups) = 1
    /\ Len(current_group) = 1
    /\ 2 * (current_group[1] - staff_groups[1][5]) < 5 * staff_space_height
    /\ staff_groups[1] = SubSeq(line_positions, 1, 5)

\* the group is five detected lines in a row
FiveLines(group) ==
    \E k \in 0..(Len(line_positions) - 5) :
        \A i \in 1..5 : group[i] = line_positions[k + i]

\* C21: a group closed with exactly 4 detected lines, in mid-scan or as
\* the last group, gets a 5th position one mean spacing of the 4 lines
\* (a third of the distance from the first to the last, cut to an integer)
\* below the last detected line.
C21_RepairByMeanSpacing ==
    \A g \in 1..Len(staff_groups) :
        LET group == staff_groups[g]
        IN  \/ FiveLines(group)
            \/ /\ FromFourLines(group)
               /\ group[5] = group[4] + ((group[4] - group[1]) \div 3)

\* the groups are in top-to-bottom order and do not overlap
TopToBottom(groups) ==
    \A g \in 1..(Len(groups) - 1) : groups[g][5] < groups[g + 1][1]

\* C28: the staff groups returned by find_staff_positions, and the groups
\* saved before validation, are in top-to-bottom order and do not overlap:
\* the last position of a group, also an interpolated one, is strictly
\* less than the first position of the next group.
C28_GroupsTopToBottom ==
    /\ TopToBottom(staff_groups)
    /\ pc = "staff_returned" => TopToBottom(validated_groups)

\* two groups are returned, the first with an interpolated 5th line
C28_Witness ==
    /\ pc = "staff_returned"
    /\ Len(validated_groups) = 2
    /\ FromFourLines(validated_groups[1])
    /\ ~FiveLines(validated_groups[1])
    /\ validated_groups[1][5] \notin Range(line_positions)

\* C29: every line position of every returned staff group is a row index
\* of the image, 0 <= y < height, also the 5th position of a group repaired
\* by interpolation.
C29_PositionsAreRows ==
    pc = "staff_returned" =>
        \A g \in 1..Len(validated_groups) :
            \A i \in 1..5 :
                0 <= validated_groups[g][i] /\ validated_groups[g][i] < height

\* the detected lines of a returned group are rows of the image; only an
\* interpolated 5th position can lie at or below the height of the image
C29_DetectedPositionsAreRows ==
    pc = "staff_returned" =>
        \A g \in 1..Len(validated_groups) :
            /\ \A i \in 1..4 :
                  0 <= validated_groups[g][i] /\ validated_groups[g][i] < height
            /\ validated_groups[g][5] >= height =>
                  /\ ~FiveLines(validated_groups[g])
                  /\ validated_groups[g][5] = Interpolated(SubSeq(validated_groups[g], 1, 4))

-----------------------------------------------------------------------------
(* Three symbols_to_score calls in a row on one NotationConverter: any     *)
(* arguments, then any other arguments, then the first arguments again     *)

CallDetections ==
    {Detection(sym, 90, <<0, 7, 6, 6>>) :
        sym \in {"quarter_note", "half_rest", "barline", "bass_clef", "time_3_4"}}

CallStreams == SeqsUpTo(CallDetections, MaxCallStream)
CallStaffs  == {<<>>, <<Staff1>>}

\* a score left in current_score by earlier use of the converter
PriorScore ==
    [EmptyScore EXCEPT !.clef = "alto", !.time_signature = <<6, 8>>,
                       !.measures = <<<<RestEntry(Detection("whole_rest", 90, <<0, 0, 6, 6>>))>>>>]

CallInit ==
    /\ pc = "score_call"
    /\ score_detections \in CallStreams
    /\ staff_positions \in CallStaffs
    /\ current_score \in {EmptyScore, PriorScore}
    /\ score = EmptyScore /\ current_measure = <<>> /\ idx = 0
    /\ CallIdle /\ ImageIdle /\ WorkIdle /\ DetIdle /\ NmsIdle /\ StaffIdle

\* the caller keeps the first result and calls again with other arguments
CallOther ==
    /\ pc = "score_returned"
    /\ call_no = 1
    /\ first_detections' = score_detections
    /\ first_staff_positions' = staff_positions
    /\ first_score' = score
    /\ score_detections' \in CallStreams
    /\ staff_positions' \in CallStaffs
    /\ call_no' = 2
    /\ pc' = "score_call"
    /\ UNCHANGED <<score, current_measure, idx, current_score>>
    /\ UNCHANGED <<workVars, detVars, imageVars, nmsVars, staffVars>>

\* the caller calls a third time with the arguments of the first call
CallRepeat ==
    /\ pc = "score_returned"
    /\ call_no = 2
    /\ score_detections' = first_detections
    /\ staff_positions' = first_staff_positions
    /\ call_no' = 3
    /\ pc' = "score_call"
    /\ UNCHANGED <<first_detections, first_staff_positions, first_score>>
    /\ UNCHANGED <<score, current_measure, idx, current_score>>
    /\ UNCHANGED <<workVars, detVars, imageVars, nmsVars, staffVars>>

CallNext == ScoreHeader \/ ScoreStep \/ ScoreFlush \/ CallOther \/ CallRepeat

SpecCalls == CallInit /\ [][CallNext]_vars

\* C11: a later symbols_to_score call with the detections and staff groups
\* of the first call returns a score equal to the first one (clef, time
\* signature, tempo, measures), whatever was called in between and whatever
\* current_score held before.
C11_RepeatedCallSameScore ==
    (/\ pc = "score_returned"
     /\ call_no > 1
     /\ score_detections = first_detections
     /\ staff_positions = first_staff_positions)
    => (score = first_score /\ current_score = first_score)

\* the third call has returned a score with a measure
C11_Witness ==
    /\ pc = "score_returned"
    /\ call_no = 3
    /\ Len(score.measures) >= 1
    /\ score.clef = "bass"

-----------------------------------------------------------------------------
(* MusicRecognitionSystem.batch_recognize and recognize, by worker.  The  *)
(* stages of recognize work on the locals of the call; the objects of the  *)
(* system keep their constructor fields, and the one attribute a call      *)
(* assigns is notation_converter.current_score.                            *)

Paths == {"page1.png", "page2.png", "corrupt.png"}

\* what the stages find in each file: whether cv2.imread decodes it, the
\* staff groups and candidate boxes process_image gives, and the (label,
\* confidence) of the classifier for each box
ImageOf(path) ==
    CASE path = "page1.png" ->
           [readable |-> TRUE,
            staff_positions |-> <<Staff1>>,
            bboxes |-> <<BoxAt(1), BoxAt(2), BoxAt(3)>>,
            outputs |-> << <<"quarter_note", 90>>, <<"bass_clef", 90>>, <<"bass_clef", 60>> >>]
      [] path = "page2.png" ->
           [readable |-> TRUE,
            staff_positions |-> <<>>,
            bboxes |-> <<BoxAt(1), BoxAt(2)>>,
            outputs |-> << <<"barline", 90>>, <<"quarter_note", 60>> >>]
      [] OTHER ->
           [readable |-> FALSE,
            staff_positions |-> <<>>,
            bboxes |-> <<>>,
            outputs |-> <<>>]

\* the locals of a recognize call; `bound` holds the names assigned so far
NoLocals ==
    [bound |-> {}, staff_positions |-> <<>>, bboxes |-> <<>>,
     detections |-> <<>>, score |-> EmptyScore]

\* the document of an export_musicxml call that has read nothing yet
NotExported ==
    [measures |-> <<>>, beats |-> 0, beat_type |-> 0, sign |-> "", line |-> ""]

\* a load that hands on whatever the file holds
LoadNeverFails(image) == FALSE

\* image_processor.py line 32-33: cv2.imread gave None, ValueError
LoadFails(image) == ~image.readable

\* a return that reads the converter's attribute
ReturnedShared(local_score, shared_score) == shared_score

\* notation_converter.py line 116: return score, the local of the call
Returned(local_score, shared_score) == local_score

CurrentPath(w) == w_paths[w][w_i[w]]

\* batch_recognize line 126: scores = []
BatchStart(w) ==
    /\ w_pc[w] = "batch_call"
    /\ w_scores' = [w_scores EXCEPT ![w] = <<>>]
    /\ w_i' = [w_i EXCEPT ![w] = 1]
    /\ w_pc' = [w_pc EXCEPT ![w] = "batch_loop"]
    /\ UNCHANGED <<w_paths, w_local, current_score>>
    /\ UNCHANGED <<pc, score_detections, staff_positions, score, current_measure, idx>>
    /\ UNCHANGED <<callVars, detVars, imageVars, nmsVars, staffVars, w_exported>>

\* batch_recognize line 127-128: the next path, recognize is entered
BatchCall(w) ==
    /\ w_pc[w] = "batch_loop"
    /\ w_i[w] <= Len(w_paths[w])
    /\ w_local' = [w_local EXCEPT ![w] = NoLocals]
    /\ w_pc' = [w_pc EXCEPT ![w] = "preprocess"]
    /\ UNCHANGED <<w_paths, w_i, w_scores, current_score>>
    /\ UNCHANGED <<pc, score_detections, staff_positions, score, current_measure, idx>>
    /\ UNCHANGED <<callVars, detVars, imageVars, nmsVars, staffVars, w_exported>>

\* batch_recognize line 130: return scores
BatchReturn(w) ==
    /\ w_pc[w] = "batch_loop"
    /\ w_i[w] > Len(w_paths[w])
    /\ w_pc' = [w_pc EXCEPT ![w] = "batch_returned"]
    /\ UNCHANGED <<w_paths, w_i, w_local, w_scores, current_score>>
    /\ UNCHANGED <<pc, score_detections, staff_positions, score, current_measure, idx>>
    /\ UNCHANGED <<callVars, detVars, imageVars, nmsVars, staffVars, w_exported>>

\* recognize line 82: preprocess, whose first statement is load_image; the
\* ValueError leaves recognize and batch_recognize
Preprocess(w) ==
    /\ w_pc[w] = "preprocess"
    /\ IF LoadFails(ImageOf(CurrentPath(w)))
       THEN /\ w_pc' = [w_pc EXCEPT ![w] = "raised"]
            /\ UNCHANGED w_local
       ELSE /\ w_pc' = [w_pc EXCEPT ![w] = "process_image"]
            /\ w_local' = [w_local EXCEPT ![w].bound = {"preprocessed"}]
    /\ UNCHANGED <<w_paths, w_i, w_scores, current_score>>
    /\ UNCHANGED <<pc, score_detections, staff_positions, score, current_measure, idx>>
    /\ UNCHANGED <<callVars, detVars, imageVars, nmsVars, staffVars, w_exported>>

\* recognize line 84
ProcessImage(w) ==
    /\ w_pc[w] = "process_image"
    /\ LET image == ImageOf(CurrentPath(w))
       IN  w_local' = [w_local EXCEPT
                ![w].bound = @ \cup {"processed", "staff_positions", "bboxes"},
                ![w].staff_positions = image.staff_positions,
                ![w].bboxes = image.bboxes]
    /\ w_pc' = [w_pc EXCEPT ![w] = "detect"]
    /\ UNCHANGED <<w_paths, w_i, w_scores, current_score>>
    /\ UNCHANGED <<pc, score_detections, staff_positions, score, current_measure, idx>>
    /\ UNCHANGED <<callVars, detVars, imageVars, nmsVars, staffVars, w_exported>>

\* recognize line 86
Detect(w) ==
    /\ w_pc[w] = "detect"
    /\ w_local' = [w_local EXCEPT
            ![w].bound = @ \cup {"detections"},
            ![w].detections = DetectSymbols(w_local[w].bboxes,
                                            ImageOf(CurrentPath(w)).outputs)]
    /\ w_pc' = [w_pc EXCEPT ![w] = "nms"]
    /\ UNCHANGED <<w_paths, w_i, w_scores, current_score>>
    /\ UNCHANGED <<pc, score_detections, staff_positions, score, current_measure, idx>>
    /\ UNCHANGED <<callVars, detVars, imageVars, nmsVars, staffVars, w_exported>>

\* recognize line 88
Suppress(w) ==
    /\ w_pc[w] = "nms"
    /\ w_local' = [w_local EXCEPT
            ![w].detections = NonMaxSuppression(w_local[w].detections, <<3, 10>>)]
    /\ w_pc' = [w_pc EXCEPT ![w] = "convert"]
    /\ UNCHANGED <<w_paths, w_i, w_scores, current_score>>
    /\ UNCHANGED <<pc, score_detections, staff_positions, score, current_measure, idx>>
    /\ UNCHANGED <<callVars, detVars, imageVars, nmsVars, staffVars, w_exported>>

\* recognize line 90, notation_converter.py line 70-113: the local score
Convert(w) ==
    /\ w_pc[w] = "convert"
    /\ w_local' = [w_local EXCEPT
            ![w].bound = @ \cup {"score"},
            ![w].score = SymbolsToScore(w_local[w].detections,
                                        w_local[w].staff_positions, current_score)]
    /\ w_pc' = [w_pc EXCEPT ![w] = "publish"]
    /\ UNCHANGED <<w_paths, w_i, w_scores, current_score>>
    /\ UNCHANGED <<pc, score_detections, staff_positions, score, current_measure, idx>>
    /\ UNCHANGED <<callVars, detVars, imageVars, nmsVars, staffVars, w_exported>>

\* notation_converter.py line 115: self.current_score = score
Publish(w) ==
    /\ w_pc[w] = "publish"
    /\ current_score' = w_local[w].score
    /\ w_pc' = [w_pc EXCEPT ![w] = "return"]
    /\ UNCHANGED <<w_paths, w_i, w_local, w_scores>>
    /\ UNCHANGED <<pc, score_detections, staff_positions, score, current_measure, idx>>
    /\ UNCHANGED <<callVars, detVars, imageVars, nmsVars, staffVars, w_exported>>

\* notation_converter.py line 116, recognize line 92, batch_recognize
\* line 129: the score returned is appended
Return(w) ==
    /\ w_pc[w] = "return"
    /\ w_scores' = [w_scores EXCEPT
            ![w] = Append(@, Returned(w_local[w].score, current_score))]
    /\ w_i' = [w_i EXCEPT ![w] = @ + 1]
    /\ w_pc' = [w_pc EXCEPT ![w] = "batch_loop"]
    /\ UNCHANGED <<w_paths, w_local, current_score>>
    /\ UNCHANGED <<pc, score_detections, staff_positions, score, current_measure, idx>>
    /\ UNCHANGED <<callVars, detVars, imageVars, nmsVars, staffVars, w_exported>>

WorkNext ==
    \E w \in DOMAIN w_pc :
        \/ BatchStart(w)
        \/ BatchCall(w)
        \/ BatchReturn(w)
        \/ Preprocess(w)
        \/ ProcessImage(w)
        \/ Detect(w)
        \/ Suppress(w)
        \/ Convert(w)
        \/ Publish(w)
        \/ Return(w)

\* the score recognize gives for a file on a system nothing else uses
RecognizeAlone(path) ==
    LET image == ImageOf(path)
    IN  SymbolsToScore(
            NonMaxSuppression(DetectSymbols(image.bboxes, image.outputs), <<3, 10>>),
            image.staff_positions, EmptyScore)

-----------------------------------------------------------------------------
(* Worker threads on one MusicRecognitionSystem, each with one image *)

ThreadsInit ==
    /\ pc = "threads"
    /\ w_pc = [w \in 1..NWorkers |-> "batch_call"]
    /\ w_paths \in [1..NWorkers -> {<<path>> : path \in Paths}]
    /\ w_i = [w \in 1..NWorkers |-> 0]
    /\ w_local = [w \in 1..NWorkers |-> NoLocals]
    /\ w_scores = [w \in 1..NWorkers |-> <<>>]
    /\ w_exported = [w \in 1..NWorkers |-> NotExported]
    /\ ScoreIdle /\ CallIdle /\ ImageIdle /\ DetIdle /\ NmsIdle /\ StaffIdle

SpecThreads == ThreadsInit /\ [][WorkNext]_vars

\* C13: workers that share one MusicRecognitionSystem without locking each
\* get, in every interleaving of their stages, the score recognize gives for
\* their image when it runs alone (and the load error when it gives one).
C13_ConcurrentSameAsAlone ==
    \A w \in DOMAIN w_pc :
        /\ w_pc[w] = "batch_returned" =>
              /\ ImageOf(w_paths[w][1]).readable
              /\ w_scores[w] = <<RecognizeAlone(w_paths[w][1])>>
        /\ w_pc[w] = "raised" => ~ImageOf(w_paths[w][1]).readable

\* two workers have returned different scores, and the converter holds the
\* score of the first worker, which published last
C13_Witness ==
    /\ \A w \in DOMAIN w_pc : w_pc[w] = "batch_returned"
    /\ w_scores[1] # w_scores[2]
    /\ w_scores[1][1].clef = "bass"
    /\ Len(w_scores[2][1].measures) = 1
    /\ current_score = w_scores[1][1]

-----------------------------------------------------------------------------
(* One batch_recognize call on a list of paths, on a system whose          *)
(* converter may hold a score of earlier use                               *)

BatchInit ==
    /\ pc = "batch"
    /\ w_pc = [w \in {1} |-> "batch_call"]
    /\ w_paths \in [{1} -> SeqsUpTo(Paths, MaxBatch)]
    /\ w_i = [w \in {1} |-> 0]
    /\ w_local = [w \in {1} |-> NoLocals]
    /\ w_scores = [w \in {1} |-> <<>>]
    /\ w_exported = [w \in {1} |-> NotExported]
    /\ current_score \in {EmptyScore, PriorScore}
    /\ score_detections = <<>> /\ staff_positions = <<>> /\ score = EmptyScore
    /\ current_measure = <<>> /\ idx = 0
    /\ CallIdle /\ ImageIdle /\ DetIdle /\ NmsIdle /\ StaffIdle

SpecBatch == BatchInit /\ [][WorkNext]_vars

Unreadable(paths) == {k \in 1..Len(paths) : ~ImageOf(paths[k]).readable}

\* the recognize call of the worker is at line 82 with a file that
\* cv2.imread does not decode
LoadAboutToFail(w) ==
    w_pc[w] = "preprocess" /\ ~ImageOf(CurrentPath(w)).readable

\* C14: recognize on an unreadable image raises at the load step: no later
\* stage has run (no local but the argument is bound), nothing is appended
\* for the image, and current_score is what it was, the score of the image
\* before or what the converter held at the start; a batch_recognize call
\* whose list holds an unreadable image raises at the first one and never
\* returns a list.
C14_UnreadableFailsAtLoad ==
    /\ [](\A w \in DOMAIN w_pc :
            /\ (w_pc[w] = "raised") =>
                  /\ w_i[w] \in Unreadable(w_paths[w])
                  /\ \A k \in Unreadable(w_paths[w]) : w_i[w] <= k
                  /\ w_local[w].bound = {}
                  /\ Len(w_scores[w]) = w_i[w] - 1
                  /\ (w_i[w] > 1 =>
                        current_score = RecognizeAlone(w_paths[w][w_i[w] - 1]))
                  /\ (w_i[w] = 1 => current_score \in {EmptyScore, PriorScore})
            /\ (Unreadable(w_paths[w]) # {}) => w_pc[w] # "batch_returned")
    /\ [][\A w \in DOMAIN w_pc :
            LoadAboutToFail(w) =>
                /\ w_pc'[w] = "raised"
                /\ current_score' = current_score
                /\ w_scores' = w_scores
                /\ w_local'[w] = NoLocals]_vars

\* the second image of a batch failed to load: one score was appended and
\* the converter holds it, not the score it held before the batch
C14_Witness ==
    /\ w_pc[1] = "raised"
    /\ w_i[1] = 2
    /\ Len(w_paths[1]) = 3
    /\ Len(w_scores[1]) = 1
    /\ current_score = w_scores[1][1]
    /\ current_score.clef = "bass"

-----------------------------------------------------------------------------
(* find_staff_positions on an image that holds K staves and nothing else:  *)
(* each staff is 5 full-width lines one row thick, evenly spaced           *)

\* the row sum of a full-width line; every other row sums to 0
FullWidth == 10

\* rows of the lines of a staff whose top line is at row `top`
StaffRows(top, d) == {top + d * k : k \in 0..4}

\* rows of the lines of K staves of line spacing d, the first at row
\* `first`, with `gap` rows from the bottom line of a staff to the top line
\* of the next
StavesRows(first, d, K, gap) ==
    UNION {StaffRows(first + (k - 1) * (4 * d + gap), d) : k \in 1..K}

\* np.sum(image, axis=1) of that image, with `below` rows under the last line
StavesProjection(first, d, K, gap, below) ==
    [r \in 1..(first + K * 4 * d + (K - 1) * gap + 1 + below) |->
        IF (r - 1) \in StavesRows(first, d, K, gap) THEN FullWidth ELSE 0]

\* line 78-85: one iteration of the scan over the given projection
ScanProjectionRow ==
    /\ pc = "staff_scan"
    /\ row < height
    /\ LET val == horizontal_projection[row + 1]
       IN  IF AboveThreshold(val, peak) /\ ~in_line
           THEN /\ in_line' = TRUE
                /\ line_start' = row
                /\ UNCHANGED line_positions
           ELSE IF ~AboveThreshold(val, peak) /\ in_line
           THEN /\ in_line' = FALSE
                /\ line_positions' = Append(line_positions, LineCenter(line_start, row))
                /\ UNCHANGED line_start
           ELSE UNCHANGED <<in_line, line_start, line_positions>>
    /\ row' = row + 1
    /\ UNCHANGED <<pc, horizontal_projection, height, peak, peak_seen,
                   staff_space_height, gi, current_group, staff_groups,
                   validated_groups>>
    /\ UNCHANGED <<callVars, workVars, detVars, imageVars, nmsVars, scoreVars>>

StavesInit ==
    /\ pc = "staff_scan"
    /\ staff_space_height \in {1, 2}
    /\ \E K \in 1..MaxStaves, d \in {2, 3, 4}, gap \in {3, 5, 6},
          first \in {0, 1}, below \in {0, 1} :
          \* the lines of a staff are closer than 2.5 x staff_space_height,
          \* adjacent staves are further apart
          /\ 2 * d < 5 * staff_space_height
          /\ 2 * gap > 5 * staff_space_height
          /\ horizontal_projection = StavesProjection(first, d, K, gap, below)
    /\ height = Len(horizontal_projection)
    /\ peak = FullWidth /\ peak_seen = TRUE
    /\ row = 0 /\ in_line = FALSE /\ line_start = 0 /\ line_positions = <<>>
    /\ gi = 0 /\ current_group = <<>> /\ staff_groups = <<>> /\ validated_groups = <<>>
    /\ DetIdle /\ NmsIdle /\ ScoreIdle /\ CallIdle /\ ImageIdle /\ WorkIdle

StavesNext == ScanProjectionRow \/ ScanDone \/ GroupStep \/ GroupLast \/ Validate

SpecStaves == StavesInit /\ [][StavesNext]_vars

RECURSIVE Ascending(_)
Ascending(S) ==
    IF S = {} THEN <<>>
    ELSE LET least == CHOOSE x \in S : \A y \in S : x <= y
         IN  <<least>> \o Ascending(S \ {least})

\* the rows of the given projection that hold a line, top to bottom and
\* counted from 0
LineRows ==
    Ascending({r - 1 : r \in {q \in 1..Len(horizontal_projection) :
                                 horizontal_projection[q] = FullWidth}})

\* the staves of the image: its lines in fives, as rows counted from 0
StavesOfImage ==
    [k \in 1..(Len(LineRows) \div 5) |->
        [i \in 1..5 |-> LineRows[5 * (k - 1) + i]]]

\* C16: for an image of K staves of 5 evenly spaced full-width lines and
\* nothing else, find_staff_positions returns exactly K groups, each the 5
\* line rows of its staff.
C16_StavesFound ==
    pc = "staff_returned" => validated_groups = StavesOfImage

\* the same, for images with a row under the bottom line of the last staff
C16_StavesFoundAboveLastRow ==
    (pc = "staff_returned" /\ horizontal_projection[height] # FullWidth)
        => validated_groups = StavesOfImage

\* the bottom line of the last staff lies on the last row of the image: the
\* scan ends inside the line, 4 lines are grouped and the 5th is interpolated
C16_LastRowLine ==
    /\ pc = "staff_returned"
    /\ horizontal_projection[height] = FullWidth
    /\ Len(validated_groups) = 1
    /\ validated_groups[1][5] \notin Range(StavesOfImage[1])

\* row r (counted from 0) of the given projection is above the threshold
RowAbove(r) ==
    /\ r \in 0..(height - 1)
    /\ AboveThreshold(horizontal_projection[r + 1], peak)

\* the maximal runs of rows above the threshold, as <<first row, last row>>
Runs ==
    {run \in (0..(height - 1)) \X (0..(height - 1)) :
        /\ run[1] <= run[2]
        /\ \A r \in run[1]..run[2] : RowAbove(r)
        /\ ~RowAbove(run[1] - 1)
        /\ ~RowAbove(run[2] + 1)}

\* C22: once the scan is over, the detected lines are the maximal runs of
\* rows above 30% of the peak, one line per run and in the order of the
\* runs, each at the middle row of its run (either middle row of a run of
\* even length), also for a run that starts at row 0 or ends at the last
\* row.
C22_OneLinePerRun ==
    pc # "staff_scan" =>
        /\ Len(line_positions) = Cardinality(Runs)
        /\ \A run \in Runs :
              \E k \in 1..Len(line_positions) :
                 /\ k = Cardinality({other \in Runs : other[1] <= run[1]})
                 /\ 2 * line_positions[k] \in {run[1] + run[2], run[1] + run[2] + 1}

\* the same, for images whose last row is at or below the threshold
C22_OneLinePerClosedRun ==
    (pc # "staff_scan" /\ ~RowAbove(height - 1)) =>
        /\ Len(line_positions) = Cardinality(Runs)
        /\ \A run \in Runs :
              \E k \in 1..Len(line_positions) :
                 /\ k = Cardinality({other \in Runs : other[1] <= run[1]})
                 /\ 2 * line_positions[k] \in {run[1] + run[2], run[1] + run[2] + 1}

-----------------------------------------------------------------------------
(* StaffDetector.remove_staff_lines.  The pixels of a float image lie in   *)
(* 0.0 .. 1.0 and are counted in thousandths                               *)

\* StaffDetector.__init__: staff_line_thickness = 2
staff_line_thickness == 2

\* line 156-157: (result * 255).astype(np.uint8) on a float array
ToUint8(rows, dtype) ==
    IF dtype = "float32"
    THEN [r \in 1..Len(rows) |->
            [c \in 1..Len(rows[r]) |-> (rows[r][c] * 255) \div 1000]]
    ELSE rows

\* line 161-164: the rows result[y_start:y_end] of one line position
BandRows(line_y, rows) ==
    LET thickness == staff_line_thickness + 1
        y_start == Max(0, line_y - thickness)
        y_end == Min(rows, line_y + thickness)
    IN  {r \in 0..(rows - 1) : y_start <= r /\ r < y_end}

\* line 161-165: the rows set to 0 by the two loops
BlankedRows(groups, rows) ==
    UNION {BandRows(groups[g][i], rows) :
              <<g, i>> \in {gi2 \in (1..Len(groups)) \X (1..5) :
                              gi2[2] <= Len(groups[gi2[1]])}}

\* remove_staff_lines, line 154-167: a copy, converted if float, with the
\* bands set to 0
RemoveStaffLines ==
    /\ pc = "remove_call"
    /\ result' = [r \in 1..Len(input_image) |->
                    IF (r - 1) \in BlankedRows(validated_groups, Len(input_image))
                    THEN [c \in 1..Len(input_image[r]) |-> 0]
                    ELSE ToUint8(input_image, image_dtype)[r]]
    /\ pc' = "remove_returned"
    /\ UNCHANGED <<input_image, image_dtype, image_input, contours>>
    /\ UNCHANGED <<callVars, workVars, detVars, nmsVars, scoreVars, staffVars>>

\* rows of a two-pixel-wide binary image: empty, full, and half covered
PixelRows == {<<0, 0>>, <<255, 255>>, <<255, 0>>}

\* the same for a float image, the half covered row in grey
FloatPixelRows == {<<0, 0>>, <<1000, 1000>>, <<500, 0>>}

\* staff groups handed over by process_image, shortened to the lines that
\* matter for an image of few rows; a repaired 5th line may lie under it
LineGroups ==
    {<<>>, <<<<4>>>>, <<<<0, 7>>>>, <<<<1>>, <<6>>>>, <<<<MaxImageRows + 1>>>>}

RemoveInit ==
    /\ pc = "remove_call"
    /\ \/ /\ image_dtype = "uint8"
          /\ input_image \in [1..MaxImageRows -> PixelRows]
       \/ /\ image_dtype = "float32"
          /\ input_image \in [1..MaxImageRows -> FloatPixelRows]
    /\ image_input = input_image
    /\ result = <<>> /\ contours = <<>>
    /\ validated_groups \in LineGroups
    /\ horizontal_projection = <<>> /\ height = 0 /\ peak = 0 /\ peak_seen = TRUE
    /\ row = 0 /\ in_line = FALSE /\ line_start = 0 /\ line_positions = <<>>
    /\ staff_space_height = 10 /\ gi = 0 /\ current_group = <<>> /\ staff_groups = <<>>
    /\ DetIdle /\ NmsIdle /\ ScoreIdle /\ CallIdle /\ WorkIdle

SpecRemove == RemoveInit /\ [][RemoveStaffLines]_vars

\* the numbers two pixels hold are equal; a float pixel k holds k/1000
SamePixel(p1, dtype1, p2, dtype2) ==
    IF dtype1 = dtype2 THEN p1 = p2
    ELSE IF dtype1 = "float32" THEN p1 = 1000 * p2
    ELSE 1000 * p1 = p2

\* rows within staff_line_thickness + 1 rows of a line position, either side
NearLine(groups, rows) ==
    {r \in 0..(rows - 1) :
        \E g \in 1..Len(groups) : \E i \in 1..Len(groups[g]) :
            Abs(r - groups[g][i]) <= staff_line_thickness + 1}

\* C24: in the image remove_staff_lines returns, every row within
\* staff_line_thickness + 1 rows above or below a line position is zero
\* across the width, every pixel of every other row equals the input pixel,
\* and the input array holds what it held.
C24_BandsBlankedRestKept ==
    pc = "remove_returned" =>
        /\ Len(result) = Len(image_input)
        /\ \A r \in 1..Len(result) :
              IF (r - 1) \in NearLine(validated_groups, Len(image_input))
              THEN \A c \in 1..Len(result[r]) : result[r][c] = 0
              ELSE \A c \in 1..Len(result[r]) :
                      SamePixel(result[r][c], "uint8", image_input[r][c], image_dtype)
        /\ input_image = image_input

\* the same for a uint8 image, with the band of a line position y taken as
\* the rows y - thickness to y + thickness - 1
C24_SliceBlankedRestKept ==
    (pc = "remove_returned" /\ image_dtype = "uint8") =>
        /\ \A r \in 1..Len(result) :
              IF \E g \in 1..Len(validated_groups) : \E i \in 1..Len(validated_groups[g]) :
                    /\ validated_groups[g][i] - (staff_line_thickness + 1) <= r - 1
                    /\ r - 1 < validated_groups[g][i] + (staff_line_thickness + 1)
              THEN \A c \in 1..Len(result[r]) : result[r][c] = 0
              ELSE result[r] = image_input[r]
        /\ input_image = image_input

-----------------------------------------------------------------------------
(* StaffDetector.extract_symbols on the contours cv2.findContours gives,   *)
(* each taken as its cv2.boundingRect, in the order cv2 gives them         *)

\* line 191: if w > 5 and h > 5
LargeEnough(box) == box[3] > 5 /\ box[4] > 5

\* (box[1], box[0]) of a is not greater than that of b
TopLeftNotAfter(a, b) == a[2] < b[2] \/ (a[2] = b[2] /\ a[1] <= b[1])

RECURSIVE InsertByTopLeft(_, _)
\* box goes behind every element whose key is not greater (stable)
InsertByTopLeft(s, box) ==
    IF s = <<>> THEN <<box>>
    ELSE IF TopLeftNotAfter(Head(s), box)
         THEN <<Head(s)>> \o InsertByTopLeft(Tail(s), box)
         ELSE <<box>> \o s

RECURSIVE SortByTopLeft(_)
\* line 194: bounding_boxes.sort(key=lambda box: (box[1], box[0]))
SortByTopLeft(s) ==
    IF s = <<>> THEN <<>>
    ELSE InsertByTopLeft(SortByTopLeft(SubSeq(s, 1, Len(s) - 1)), s[Len(s)])

RECURSIVE BoundingBoxes(_)
\* line 188-192: the boxes appended by the loop over the contours
BoundingBoxes(rects) ==
    IF rects = <<>> THEN <<>>
    ELSE (IF LargeEnough(Head(rects)) THEN <<Head(rects)>> ELSE <<>>)
         \o BoundingBoxes(Tail(rects))

\* extract_symbols, line 179-197
ExtractSymbols ==
    /\ pc = "extract_call"
    /\ bboxes' = SortByTopLeft(BoundingBoxes(contours))
    /\ pc' = "extract_returned"
    /\ UNCHANGED <<outputs, imageVars>>
    /\ UNCHANGED <<callVars, workVars, nmsVars, scoreVars, staffVars>>

\* rectangles around the 5 px limit, at three places
ContourRects ==
    {<<at[1], at[2], size[1], size[2]>> :
        at \in {<<0, 0>>, <<10, 0>>, <<0, 10>>},
        size \in {<<4, 6>>, <<5, 5>>, <<6, 5>>, <<6, 6>>}}

ExtractInit ==
    /\ pc = "extract_call"
    /\ contours \in SeqsUpTo(ContourRects, MaxContours)
    /\ input_image = <<>> /\ image_dtype = "uint8" /\ image_input = <<>>
    /\ result = <<>>
    /\ DetIdle /\ NmsIdle /\ ScoreIdle /\ StaffIdle /\ CallIdle /\ WorkIdle

SpecExtract == ExtractInit /\ [][ExtractSymbols]_vars

\* bboxes is in order of top edge, then left edge
TopLeftOrdered(s) ==
    \A i \in 1..Len(s) : \A j \in 1..Len(s) : i < j => TopLeftNotAfter(s[i], s[j])

\* C25: extract_symbols returns exactly the rectangles of the contours
\* that are at least 5 wide and at least 5 high, each as often as the
\* contours give it, in order of top edge y and then left edge x.
C25_AtLeastFiveKeptSorted ==
    pc = "extract_returned" =>
        /\ \A box \in Range(contours) \cup Range(bboxes) :
              Count(box, bboxes) =
                 IF box[3] >= 5 /\ box[4] >= 5 THEN Count(box, contours) ELSE 0
        /\ TopLeftOrdered(bboxes)

\* the same with the limit the code has: more than 5 wide and high
C25_MoreThanFiveKeptSorted ==
    pc = "extract_returned" =>
        /\ \A box \in Range(contours) \cup Range(bboxes) :
              Count(box, bboxes) =
                 IF box[3] > 5 /\ box[4] > 5 THEN Count(box, contours) ELSE 0
        /\ TopLeftOrdered(bboxes)

-----------------------------------------------------------------------------
(* MusicRecognitionSystem.export_score with format 'musicxml', by worker:   *)
(* the argument is written to notation_converter.current_score and           *)
(* export_musicxml reads self.current_score again at each use                *)

\* pitch_str[0] and pitch_str[-1] of the pitch names _estimate_pitch gives
PitchStep(pitch) ==
    CASE pitch \in {"C4", "C5"} -> "C"
      [] pitch \in {"D4", "D5"} -> "D"
      [] pitch \in {"E4", "E5"} -> "E"
      [] pitch \in {"F4", "F5"} -> "F"
      [] pitch = "G4" -> "G"
      [] pitch = "A4" -> "A"
      [] pitch = "B4" -> "B"

PitchOctave(pitch) == IF pitch \in {"C5", "D5", "E5", "F5"} THEN "5" ELSE "4"

\* line 213-223: the <type> text for a duration in hundredths
TypeText(duration) ==
    IF duration >= 400 THEN "whole"
    ELSE IF duration >= 200 THEN "half"
    ELSE IF duration >= 100 THEN "quarter"
    ELSE IF duration >= 50 THEN "eighth"
    ELSE "16th"

\* line 198-223: the <note> element of an entry; <duration> is
\* str(int(duration))
NoteElement(entry) ==
    IF entry.type = "rest"
    THEN [rest |-> TRUE, duration |-> entry.duration \div 100, type |-> TypeText(entry.duration)]
    ELSE [rest |-> FALSE, step |-> PitchStep(entry.pitch), octave |-> PitchOctave(entry.pitch),
          duration |-> entry.duration \div 100, type |-> TypeText(entry.duration)]

\* the <note> elements of the measures of a list of measures
MeasureElements(measures) ==
    [m \in 1..Len(measures) |->
        [k \in 1..Len(measures[m]) |-> NoteElement(measures[m][k])]]

\* line 194 and 196
ClefSign(clef) == IF clef = "treble" THEN "G" ELSE "F"
ClefLine(clef) == IF clef = "treble" THEN "2" ELSE "4"

\* UNCHANGED of an export step, but for w_pc, w_exported and current_score
ExportFrame ==
    /\ UNCHANGED <<w_paths, w_i, w_local, w_scores>>
    /\ UNCHANGED <<pc, score_detections, staff_positions, score, current_measure, idx>>
    /\ UNCHANGED <<callVars, detVars, imageVars, nmsVars, staffVars>>

\* system.py line 146: self.notation_converter.current_score = score
ExportSet(w) ==
    /\ w_pc[w] = "export_call"
    /\ current_score' = w_local[w].score
    /\ w_pc' = [w_pc EXCEPT ![w] = "export_measures"]
    /\ UNCHANGED w_exported
    /\ ExportFrame

\* line 177: self.current_score.measures is read once for the loop; with
\* no measure the attributes are never written
ExportMeasures(w) ==
    /\ w_pc[w] = "export_measures"
    /\ w_exported' = [w_exported EXCEPT ![w].measures = MeasureElements(current_score.measures)]
    /\ w_pc' = [w_pc EXCEPT ![w] =
                  IF current_score.measures = <<>> THEN "export_returned" ELSE "export_beats"]
    /\ UNCHANGED current_score
    /\ ExportFrame

\* line 188: self.current_score.time_signature[0]
ExportBeats(w) ==
    /\ w_pc[w] = "export_beats"
    /\ w_exported' = [w_exported EXCEPT ![w].beats = current_score.time_signature[1]]
    /\ w_pc' = [w_pc EXCEPT ![w] = "export_beat_type"]
    /\ UNCHANGED current_score
    /\ ExportFrame

\* line 190: self.current_score.time_signature[1]
ExportBeatType(w) ==
    /\ w_pc[w] = "export_beat_type"
    /\ w_exported' = [w_exported EXCEPT ![w].beat_type = current_score.time_signature[2]]
    /\ w_pc' = [w_pc EXCEPT ![w] = "export_sign"]
    /\ UNCHANGED current_score
    /\ ExportFrame

\* line 194: 'G' if self.current_score.clef == 'treble' else 'F'
ExportSign(w) ==
    /\ w_pc[w] = "export_sign"
    /\ w_exported' = [w_exported EXCEPT ![w].sign = ClefSign(current_score.clef)]
    /\ w_pc' = [w_pc EXCEPT ![w] = "export_line"]
    /\ UNCHANGED current_score
    /\ ExportFrame

\* line 196: '2' if self.current_score.clef == 'treble' else '4'; the
\* notes of the loop come from the list read at line 177
ExportLine(w) ==
    /\ w_pc[w] = "export_line"
    /\ w_exported' = [w_exported EXCEPT ![w].line = ClefLine(current_score.clef)]
    /\ w_pc' = [w_pc EXCEPT ![w] = "export_returned"]
    /\ UNCHANGED current_score
    /\ ExportFrame

ExportNext ==
    \E w \in DOMAIN w_pc :
        \/ ExportSet(w)
        \/ ExportMeasures(w)
        \/ ExportBeats(w)
        \/ ExportBeatType(w)
        \/ ExportSign(w)
        \/ ExportLine(w)
        \/ BatchStart(w)
        \/ BatchCall(w)
        \/ BatchReturn(w)
        \/ Preprocess(w)
        \/ ProcessImage(w)
        \/ Detect(w)
        \/ Suppress(w)
        \/ Convert(w)
        \/ Publish(w)
        \/ Return(w)

\* the document export_musicxml writes for a score on a converter that
\* nothing else uses
MusicXmlOf(sc) ==
    IF sc.measures = <<>> THEN NotExported
    ELSE [measures |-> MeasureElements(sc.measures),
          beats |-> sc.time_signature[1], beat_type |-> sc.time_signature[2],
          sign |-> ClefSign(sc.clef), line |-> ClefLine(sc.clef)]

\* scores handed to export_score: results of earlier recognize calls
ExportScores == {PriorScore, RecognizeAlone("page1.png"), RecognizeAlone("page2.png")}

\* the calls a worker makes: export_score(score, path, 'musicxml') or
\* recognize(path)
ExportCalls == {[call |-> "export_score", score |-> sc] : sc \in ExportScores}
RecognizeCalls == {[call |-> "recognize", path |-> path] : path \in Paths}

\* worker threads on one MusicRecognitionSystem, each in one export_score
\* call or one recognize call
ExportInit ==
    /\ pc = "threads"
    /\ \E calls \in [1..NWorkers -> ExportCalls \cup RecognizeCalls] :
          /\ w_pc = [w \in 1..NWorkers |->
                        IF calls[w] \in ExportCalls THEN "export_call" ELSE "batch_call"]
          /\ w_paths = [w \in 1..NWorkers |->
                          IF calls[w] \in ExportCalls THEN <<>> ELSE <<calls[w].path>>]
          /\ w_local = [w \in 1..NWorkers |->
                          IF calls[w] \in ExportCalls
                          THEN [NoLocals EXCEPT !.bound = {"score"}, !.score = calls[w].score]
                          ELSE NoLocals]
    /\ w_i = [w \in 1..NWorkers |-> 0]
    /\ w_scores = [w \in 1..NWorkers |-> <<>>]
    /\ w_exported = [w \in 1..NWorkers |-> NotExported]
    /\ ScoreIdle /\ CallIdle /\ ImageIdle /\ DetIdle /\ NmsIdle /\ StaffIdle

SpecExport == ExportInit /\ [][ExportNext]_vars

\* the export_score calls among the workers
Exporters ==
    {w \in DOMAIN w_pc :
        w_pc[w] \in {"export_call", "export_measures", "export_beats", "export_beat_type",
                     "export_sign", "export_line", "export_returned"}}

\* C30: in every interleaving with a concurrent recognize or export_score
\* call on the same system, the document an export_score call has written
\* when it returns is the one of the score given to it as argument.
C30_ExportsItsArgument ==
    \A w \in Exporters :
        w_pc[w] = "export_returned" => w_exported[w] = MusicXmlOf(w_local[w].score)

\* an export_score call that no other call of the system runs into writes
\* the document of its argument
C30_ExportAloneWritesArgument ==
    \A w \in Exporters :
        (/\ w_pc[w] = "export_returned"
         /\ \A v \in DOMAIN w_pc \ {w} : w_pc[v] \in {"export_call", "batch_call"})
        => w_exported[w] = MusicXmlOf(w_local[w].score)

=============================================================================
